---------------------------- MODULE Spec2Model ----------------------------
(***************************************************************************)
(* The list mutation pipeline of packages/core/src/lib/core/mutations:     *)
(* createOne/createMany, updateOne/updateMany (create-update.ts) and        *)
(* deleteOne/deleteMany (delete.ts), with NestedMutationState.              *)
(*                                                                          *)
(* One request is one orchestrator call.  Every item of the request is an   *)
(* async function; the async functions it has started and not yet seen      *)
(* settle are frames[i], keyed by the path of relationship fields that      *)
(* leads to them: the top-level mutation at <<>>, the nested creates of     *)
(* pass 2 and the deferred afterOperation callbacks below it.  A mutation   *)
(* that awaits its nested creates or its callbacks is suspended until all   *)
(* of them have settled; they run concurrently, and their steps interleave  *)
(* with each other and with the other items of the batch.                   *)
(* An action is the code between two suspension points.  The calls of one   *)
(* map over the fields are made in one synchronous run, in field order;     *)
(* the hooks of a for loop are awaited one after the other, one step each.  *)
(* User code (access functions, resolvers, hooks) and store failures are    *)
(* inputs: their outcome is drawn with \E where they are called.            *)
(***************************************************************************)
EXTENDS Integers, Sequences, FiniteSets, TLC

\* ------------------------------------------------------------- bounds
\* items of a ...Many call
MaxItems == 2
\* nested creates one item of a request may start
MaxNested == 1
\* items of a request whose input asks for nested creates
MaxNestingItems == 1
\* nested creates the single item of a ...One request may start in SpecDeep
MaxNestedDeep == 2

\* ------------------------------------------------------------- schema
Items == 1..MaxItems
Ops == {"create", "update", "delete"}
Modes == {"one", "many"}

\* two lists referring to each other through their relationship fields
ListKeys == {"A", "B"}
TopList == "A"
ForeignList(list) == IF list = "A" THEN "B" ELSE "A"

\* Object.entries(list.fields), the same for both lists
FieldKeys == <<"a", "b", "r", "m">>
Fields == {FieldKeys[k] : k \in 1..Len(FieldKeys)}
DbFieldKind(f) == IF f = "a" THEN "scalar" ELSE IF f = "b" THEN "multi" ELSE "relation"
DbFieldMode(f) == IF f = "r" THEN "one" ELSE "many"

RECURSIVE SelectFields(_, _)
SelectFields(fs, rel) ==
  IF fs = <<>> THEN <<>>
  ELSE IF (DbFieldKind(Head(fs)) = "relation") = rel
       THEN <<Head(fs)>> \o SelectFields(Tail(fs), rel)
       ELSE SelectFields(Tail(fs), rel)

NonRelationFields == SelectFields(FieldKeys, FALSE)
RelationFields == SelectFields(FieldKeys, TRUE)
SeqToSet(s) == {s[k] : k \in 1..Len(s)}

\* ------------------------------------------------------------- values
\* a row: its id and its value, the data of the mutation that wrote it last
\* (item 0: the row was there before the request)
InitialData == [by |-> 0, path |-> <<>>]
NoItem == [id |-> 0, v |-> InitialData]
Pending == [kind |-> "pending"]
\* rows of TopList before the request: id 1 exists, id 2 does not
InitialIds == {1}
TargetIds == {1, 2}
\* the access filter: true, false, or a predicate (the ids it lets through)
AccessFilterValues ==
  {[kind |-> "true", ids |-> {}], [kind |-> "false", ids |-> {}], [kind |-> "where", ids |-> {2}]}
NoFilter == [kind |-> "none", ids |-> {}]
\* a unique-key input: the set of recognised unique fields it names, and the id it denotes
\* the slug of the row with identifier id (no mutation of the model writes it)
SlugBase == 10
SlugFor(id) == id + SlugBase
\* what a relationship field's input asks for
RelationInputs == {"undefined", "null", "connect", "create", "connect+create"}
\* the callables that throw in one phase over the fields: none, one, or two
Pass1Failures == {{}, {"a"}, {"a", "b"}}
HookFailures == {{}, {"b"}, {"a", "m"}}
\* the position of the field hook that throws in a for loop (0: none does)
LoopFailures == {0, 2}


VARIABLES
  op,              \* the operation kind of the request
  mode,            \* "one": createOne/updateOne/deleteOne, "many": the ...Many call
  reqpc,           \* position of the orchestrator before the items run
  operationAccess, \* result of getOperationAccess (meaningful once computed)
  accessFilters,   \* result of getAccessFilters
  calls,           \* how often the orchestrator asked the access decision provider
  frames,          \* frames[i]: the pending async functions of item i, by path
  outcome,         \* outcome[i]: Pending, the returned item, or the error
  log,             \* log[i][path]: what the mutation at path has invoked so far, in order
  store,           \* store[list]: the rows of the list, id -> value
  limiter,         \* the write limiter of the request context
  nestedLeft,      \* nestedLeft[i]: nested creates item i's input may still ask for
  resolvedData,    \* the resolved data handed to transformForPrismaClient
  data,            \* the write payload transformForPrismaClient returned
  uniqueFields     \* the fields of list A a unique where condition may name

vars == <<op, mode, reqpc, operationAccess, accessFilters, calls, frames, outcome, log,
          store, limiter, nestedLeft, resolvedData, data, uniqueFields>>

\* the where input of an update or delete: no key, one key, two keys; the
\* slug on its own only where the list has it as a unique field
UniqueInputs ==
  {[keys |-> ks, id |-> t] :
     ks \in {{}, {"id"}, {"id", "slug"}} \cup {{f} : f \in uniqueFields}, t \in TargetIds}
\* the resolved unique condition: the one field and its value
NoWhere == [key |-> "", val |-> 0]
UniqueWhere(u) ==
  LET key == CHOOSE k \in u.keys : TRUE
  IN [key |-> key, val |-> IF key = "id" THEN u.id ELSE SlugFor(u.id)]
\* the id of the only row a unique condition can match
RowIdOf(w) == IF w.key = "id" THEN w.val ELSE w.val - SlugBase

\* ------------------------------------------------------------- errors
AccessDenied(i) == [kind |-> "error", type |-> "accessDeniedError", tags |-> {}, origin |-> i]
Err(i, type, tags) == [kind |-> "error", type |-> type, tags |-> tags, origin |-> i]
Committed(row) == [kind |-> "item", row |-> row]

\* ------------------------------------------------------------- the store
RowIds(list) == {r.id : r \in store[list]}
MaxOf(S) == IF S = {} THEN 0 ELSE CHOOSE x \in S : \A y \in S : y <= x
\* the identifier the store assigns to a created row
NextId(list) == MaxOf(RowIds(list)) + 1
\* findUnique with the access filter merged into the where condition
FindUnique(list, w, flt) ==
  {r \in store[list] : r.id = RowIdOf(w) /\ (flt.kind = "true" \/ r.id \in flt.ids)}
\* the value a mutation writes: its own resolved data
DataOf(i, f) == [by |-> i, path |-> f.path]
InitialStore ==
  [l \in ListKeys |-> IF l = TopList THEN {[id |-> k, v |-> InitialData] : k \in InitialIds} ELSE {}]


\* ------------------------------------------------------------- write payload
\* values of the resolved data: undefined, null, a string, and the store's
\* set-null sentinel Prisma.DbNull
Undefined == [t |-> "undefined", s |-> ""]
Null == [t |-> "null", s |-> ""]
DbNull == [t |-> "Prisma.DbNull", s |-> ""]
Str(x) == [t |-> "string", s |-> x]
Absent == [t |-> "absent", s |-> ""]
NoData == [k \in {} |-> Null]
\* what Object.entries throws for undefined and null
TypeError == [t |-> "TypeError", s |-> "Cannot convert undefined or null to object"]

\* a list for the transformation: Object.entries(list.fields) with the dbField
\* of each field, and the sub-fields of the multi field
TransformFieldKeys == <<"title", "meta", "name", "author">>
NameFieldKeys == <<"first", "last", "extra">>
ScalarDbField(scalar) == [kind |-> "scalar", scalar |-> scalar, fields |-> NoData]
MultiDbField ==
  [kind |-> "multi", scalar |-> "",
   fields |-> [first |-> ScalarDbField("String"), last |-> ScalarDbField("String"),
               extra |-> ScalarDbField("Json")]]
RelationDbField == [kind |-> "relation", scalar |-> "", fields |-> NoData]
TransformFields ==
  [title |-> ScalarDbField("String"),
   meta |-> ScalarDbField("Json"),
   name |-> MultiDbField,
   author |-> RelationDbField]
\* list.fields of the lists A and B, with their dbFields
ListFields ==
  [f \in Fields |->
     IF DbFieldKind(f) = "scalar" THEN ScalarDbField("String")
     ELSE IF DbFieldKind(f) = "multi" THEN MultiDbField
     ELSE RelationDbField]

\* an object with the keys that are present
Present(c) == [k \in {x \in DOMAIN c : c[x] # Absent} |-> c[k]]
NameValues ==
  {Present(c) : c \in [first : {Absent, Null, Str("A")}, last : {Absent, Null, Str("B")},
                       extra : {Absent, Null, Str("X")}]}
\* the resolved data of a mutation: each field absent, null or set; the
\* multi field may also be undefined
ResolvedDatas ==
  {Present(c) : c \in [title : {Absent, Null, Str("T")}, meta : {Absent, Null, Str("J")},
                       name : {Absent, Null, Undefined} \cup NameValues,
                       author : {Absent, Null, Str("C")}]}
\* what getResolvedData returns in the pipeline: an entry for every field of
\* the list (each pass builds it from Object.entries(list.fields)); the multi
\* field resolved to an object, or left undefined
HookResolvedDatas ==
  {[a |-> Str("A"), b |-> bv, r |-> Undefined, m |-> Undefined] :
     bv \in {[first |-> Str("B")], Undefined}}

\* Object.entries(obj): the keys of obj in insertion order
EntryOrder == TransformFieldKeys \o FieldKeys
ObjectEntries(obj, order) == SelectSeq(order, LAMBDA k : k \in DOMAIN obj)
\* Object.fromEntries(entries): a later entry replaces an earlier one of the same key
FromEntries(es) ==
  [k \in {es[n][1] : n \in DOMAIN es} |->
     es[CHOOSE n \in DOMAIN es : es[n][1] = k /\ \A m \in DOMAIN es : es[m][1] = k => m <= n][2]]

\* the column of a sub-field of a multi field
getDBFieldKeyForFieldOnMultiField(fieldKey, subField) == fieldKey \o "_" \o subField

\* (variant) null is passed to the store as it is
transformInnerDBFieldKeepsNull(dbField, value) == value

transformInnerDBField(dbField, value) ==
  IF dbField.kind = "scalar" /\ dbField.scalar = "Json" /\ value = Null THEN DbNull ELSE value

\* (variant) a multi field is written under its own key
TransformEntryUnexpanded(fields, fieldKey, value) ==
  <<<<fieldKey, IF fields[fieldKey].kind = "multi" THEN Null
               ELSE transformInnerDBField(fields[fieldKey], value)>>>>

\* the callback of flatMap: the entries one field of the data turns into
TransformEntry(fields, fieldKey, value) ==
  LET dbField == fields[fieldKey]
      inner == ObjectEntries(value, NameFieldKeys)
  IN IF dbField.kind = "multi"
     THEN [n \in DOMAIN inner |->
             <<getDBFieldKeyForFieldOnMultiField(fieldKey, inner[n]),
               transformInnerDBField(dbField.fields[inner[n]], value[inner[n]])>>]
     ELSE <<<<fieldKey, transformInnerDBField(dbField, value)>>>>

RECURSIVE FlatMapEntries(_, _, _)
FlatMapEntries(fields, d, keys) ==
  IF keys = <<>> THEN <<>>
  ELSE TransformEntry(fields, Head(keys), d[Head(keys)]) \o FlatMapEntries(fields, d, Tail(keys))

\* Object.entries(value) on the value of a multi field: a TypeError when the
\* value is undefined or null
EntriesThrow(value) == value = Undefined \/ value = Null
TransformThrows(fields, d) ==
  \E k \in DOMAIN d : fields[k].kind = "multi" /\ EntriesThrow(d[k])

transformForPrismaClient(fields, d) ==
  IF TransformThrows(fields, d) THEN TypeError
  ELSE FromEntries(FlatMapEntries(fields, d, ObjectEntries(d, EntryOrder)))

\* ------------------------------------------------------------- frames
\* one pending async function: createSingle/updateSingle/deleteSingle with its
\* hookArgs (kind "top" or "nested"), or a deferred afterOperation callback
\* (kind "after")
Frame(kind, path, list, fop, pc) ==
  [kind |-> kind, path |-> path, list |-> list, op |-> fop, pc |-> pc,
   item |-> NoItem, where |-> NoWhere, target |-> NoWhere, access |-> TRUE,
   errs |-> {}, noops |-> {}, hk |-> 0, resolvedData |-> NoData, data |-> NoData,
   nms |-> <<>>, derrs |-> {}, row |-> NoItem]

NoFrames == [p \in {} |-> NoItem]
Running(i) == DOMAIN frames[i] # {}
Fr(i, p) == frames[i][p]
At(i, p, pc) == p \in DOMAIN frames[i] /\ frames[i][p].pc = pc
Last(path) == path[Len(path)]
Parent(path) == SubSeq(path, 1, Len(path) - 1)
\* the async functions the one at p has started and is awaiting
Children(i, p) == {q \in DOMAIN frames[i] : Len(q) = Len(p) + 1 /\ Parent(q) = p}
Without(fs, p) == [q \in DOMAIN fs \ {p} |-> fs[q]]

\* one invocation by the mutation of frame f (or one phase of invocations
\* over the fields inv, of which the fields bad raised), with the item and
\* originalItem handed to it, and the unique key the mutation was called with
EvO(f, name, inv, bad, item, orig) ==
  [ev |-> name, path |-> f.path, list |-> f.list, op |-> f.op,
   inv |-> inv, bad |-> bad, item |-> item, orig |-> orig, where |-> f.where]
Ev(f, name, inv, bad, item) == EvO(f, name, inv, bad, item, NoItem)
NoLogs == [p \in {} |-> <<>>]
LogOf(i, p) == IF p \in DOMAIN log[i] THEN log[i][p] ELSE <<>>
\* the invocations evs[p] are added to the log of each path p of evs
LoggedAll(i, evs) ==
  log' = [log EXCEPT ![i] =
            [q \in DOMAIN @ \cup DOMAIN evs |->
               LogOf(i, q) \o (IF q \in DOMAIN evs THEN evs[q] ELSE <<>>)]]
Logged(i, p, evs) == LoggedAll(i, [q \in {p} |-> evs])
\* the last invocation of path p is replaced: a phase has invoked one more field
Relogged(i, p, e) ==
  log' = [log EXCEPT ![i][p] = [@ EXCEPT ![Len(@)] = e]]

\* ------------------------------------------------------------- Init
\* the limiter's slot when no write is in flight
NoHolder == <<0, <<>>>>

\* the start of an orchestrator call
Init ==
  /\ op \in Ops
  /\ mode \in Modes
  /\ reqpc = "operationAccess"
  /\ operationAccess = FALSE
  /\ accessFilters = NoFilter
  /\ calls = [operationAccess |-> 0, accessFilters |-> 0]
  /\ frames = [i \in Items |-> NoFrames]
  /\ outcome = [i \in Items |-> Pending]
  /\ log = [i \in Items |-> NoLogs]
  /\ store = InitialStore
  /\ limiter = [holder |-> NoHolder, queue |-> <<>>]
  /\ nestedLeft = [i \in Items |-> MaxNested]
  /\ resolvedData = NoData /\ data = NoData
  /\ uniqueFields = {"id"}

\* a single createOne/updateOne/deleteOne whose input nests deeper
InitDeep ==
  /\ op \in Ops
  /\ mode = "one"
  /\ reqpc = "operationAccess"
  /\ operationAccess = FALSE
  /\ accessFilters = NoFilter
  /\ calls = [operationAccess |-> 0, accessFilters |-> 0]
  /\ frames = [i \in Items |-> NoFrames]
  /\ outcome = [i \in Items |-> Pending]
  /\ log = [i \in Items |-> NoLogs]
  /\ store = InitialStore
  /\ limiter = [holder |-> NoHolder, queue |-> <<>>]
  /\ nestedLeft = [i \in Items |-> MaxNestedDeep]
  /\ resolvedData = NoData /\ data = NoData
  /\ uniqueFields = {"id"}

\* the items of the request: one for ...One, MaxItems for ...Many
BatchItems == IF mode = "one" THEN {1} ELSE Items

\* ------------------------------------------------------------- exceptions and returns
\* the tag a failed nested create of field g gets in the relationship errors
\* of the mutation on list: a to-one resolver lets the error through (tagged
\* List.field by pass 2), a to-many resolver wraps it in RelationshipErrors
\* tagged List.field.create
NestedCreateTag(list, g) ==
  <<list, g, IF DbFieldMode(g) = "one" THEN "" ELSE "create">>

\* an exception leaves the async function at p: the item's promise rejects,
\* or the catch of pass 2 / the collector of NestedMutationState.afterOperation
\* of the awaiting mutation takes it
RaiseFrames(fs, p, e) ==
  IF fs[p].kind = "top" THEN NoFrames
  ELSE IF fs[p].kind = "nested"
  THEN [Without(fs, p) EXCEPT ![Parent(p)].errs =
          @ \cup {NestedCreateTag(fs[Parent(p)].list, Last(p))}]
  ELSE [Without(fs, p) EXCEPT ![Parent(p)].derrs = @ \cup {e.type}]

\* (variant) the batch awaits its items together: one rejection is every
\* pending item's outcome
RaiseRejectsBatch(i, p, e) ==
  /\ frames' = [frames EXCEPT ![i] = RaiseFrames(@, p, e)]
  /\ outcome' = IF Fr(i, p).kind = "top"
                THEN [j \in Items |-> IF outcome[j] = Pending /\ j \in BatchItems THEN e ELSE outcome[j]]
                ELSE outcome

Raise(i, p, e) ==
  /\ frames' = [frames EXCEPT ![i] = RaiseFrames(@, p, e)]
  /\ outcome' = IF Fr(i, p).kind = "top" THEN [outcome EXCEPT ![i] = e] ELSE outcome

Goto(i, p, pc) == frames' = [frames EXCEPT ![i][p].pc = pc]

\* (variant) the list hooks are validated before the field hooks
PhaseAfterListFirst(pc) ==
  CASE pc = "awaitRelationships" -> "fieldResolveInput"
    [] pc = "fieldResolveInput" -> "listResolveInput"
    [] pc = "listResolveInput" -> "validateList"
    [] pc = "validateList" -> "validateFields"
    [] pc = "validateFields" -> "listBeforeOperation"
    [] pc = "listBeforeOperation" -> "fieldBeforeOperation"
    [] pc = "awaitDrain" -> "listAfterOperation"
    [] pc = "listAfterOperation" -> "fieldAfterOperation"
    [] pc = "fieldAfterOperation" -> "return"

\* the statement order of getResolvedData (after the input resolvers),
\* resolveInputForCreateOrUpdate, deleteSingle and the afterOperation closure
PhaseAfter(pc) ==
  CASE pc = "awaitRelationships" -> "fieldResolveInput"
    [] pc = "fieldResolveInput" -> "listResolveInput"
    [] pc = "listResolveInput" -> "validateFields"
    [] pc = "validateFields" -> "validateList"
    [] pc = "validateList" -> "listBeforeOperation"
    [] pc = "listBeforeOperation" -> "fieldBeforeOperation"
    [] pc = "awaitDrain" -> "listAfterOperation"
    [] pc = "listAfterOperation" -> "fieldAfterOperation"
    [] pc = "fieldAfterOperation" -> "return"

\* what follows the field beforeOperation hooks: resolveInputForCreateOrUpdate
\* builds its return value, deleteSingle goes on to the write
AfterBeforeOperationPc(f) == IF f.op = "delete" THEN "writeLimit" ELSE "transform"

\* ------------------------------------------------------------- orchestrators
\* (variant) a ...Many call throws like ...One when operationAccess is false
GetOperationAccessThrows ==
  /\ reqpc = "operationAccess"
  /\ \E allowed \in BOOLEAN :
       /\ operationAccess' = allowed
       /\ calls' = [calls EXCEPT !.operationAccess = @ + 1]
       /\ IF ~allowed
          THEN /\ outcome' = [outcome EXCEPT ![1] = AccessDenied(1)]
               /\ reqpc' = "done"
          ELSE /\ outcome' = outcome
               /\ reqpc' = IF op = "create" THEN "items" ELSE "accessFilters"
  /\ UNCHANGED <<op, mode, accessFilters, frames, log, store, limiter, nestedLeft, resolvedData, data, uniqueFields>>

\* getOperationAccess, once per orchestrator call; ...One throws at once
GetOperationAccess ==
  /\ reqpc = "operationAccess"
  /\ \E allowed \in BOOLEAN :
       /\ operationAccess' = allowed
       /\ calls' = [calls EXCEPT !.operationAccess = @ + 1]
       /\ IF mode = "one" /\ ~allowed
          THEN /\ outcome' = [outcome EXCEPT ![1] = AccessDenied(1)]
               /\ reqpc' = "done"
          ELSE /\ outcome' = outcome
               /\ reqpc' = IF op = "create" THEN "items" ELSE "accessFilters"
  /\ UNCHANGED <<op, mode, accessFilters, frames, log, store, limiter, nestedLeft, resolvedData, data, uniqueFields>>

\* getAccessFilters, once per update/delete orchestrator call
GetAccessFilters ==
  /\ reqpc = "accessFilters"
  /\ \E flt \in AccessFilterValues : accessFilters' = flt
  /\ calls' = [calls EXCEPT !.accessFilters = @ + 1]
  /\ reqpc' = "items"
  /\ UNCHANGED <<op, mode, operationAccess, frames, outcome, log, store, limiter, nestedLeft, resolvedData, data, uniqueFields>>

\* (variant) createSingle resolves the input without the create access check
FirstPcUnchecked(o) == IF o = "create" THEN "resolveFields" ELSE "resolveUniqueWhereInput"

\* the first statement of createSingle, and of updateSingle and deleteSingle
FirstPc(o) == IF o = "create" THEN "applyAccessControlForCreate" ELSE "resolveUniqueWhereInput"

\* the frames of an item whose async function has just been called
TopFrames(f) == [p \in {<<>>} |-> f]

\* (variant) the items of a batch start without the per-item access check
StartItemUnchecked(i) ==
  /\ reqpc = "items"
  /\ i \in BatchItems
  /\ ~Running(i) /\ outcome[i] = Pending
  /\ \A j \in BatchItems : j < i => (Running(j) \/ outcome[j] # Pending)
  /\ frames' = [frames EXCEPT ![i] = TopFrames(Frame("top", <<>>, TopList, op, FirstPc(op)))]
  /\ outcome' = outcome
  /\ UNCHANGED <<op, mode, reqpc, operationAccess, accessFilters, calls, log, store, limiter, nestedLeft, resolvedData, data, uniqueFields>>

\* the synchronous start of item i's async function, in input order
StartItem(i) ==
  /\ reqpc = "items"
  /\ i \in BatchItems
  /\ ~Running(i) /\ outcome[i] = Pending
  /\ \A j \in BatchItems : j < i => (Running(j) \/ outcome[j] # Pending)
  /\ IF ~operationAccess
     THEN /\ outcome' = [outcome EXCEPT ![i] = AccessDenied(i)]
          /\ frames' = frames
     ELSE /\ frames' = [frames EXCEPT ![i] = TopFrames(Frame("top", <<>>, TopList, op, FirstPc(op)))]
          /\ outcome' = outcome
  /\ UNCHANGED <<op, mode, reqpc, operationAccess, accessFilters, calls, log, store, limiter, nestedLeft, resolvedData, data, uniqueFields>>

unchangedShared ==
  <<op, mode, reqpc, operationAccess, accessFilters, calls, nestedLeft, resolvedData, data, uniqueFields>>

\* ------------------------------------------------------------- target and access
\* resolveUniqueWhereInput: exactly one recognised unique field
ResolveUniqueWhereInput(i, p) ==
  /\ At(i, p, "resolveUniqueWhereInput")
  /\ \E u \in UniqueInputs :
       /\ Logged(i, p, <<Ev(Fr(i, p), "resolveUniqueWhereInput", {}, {}, NoItem)>>)
       /\ IF Cardinality(u.keys) = 1
          THEN /\ frames' = [frames EXCEPT ![i][p] =
                    [@ EXCEPT !.where = UniqueWhere(u), !.pc = "checkFilterOrderAccess"]]
               /\ outcome' = outcome
          ELSE Raise(i, p, Err(i, "userInputError", {}))
  /\ UNCHANGED <<unchangedShared, store, limiter>>

\* checkFilterOrderAccess on the unique field
CheckFilterOrderAccess(i, p) ==
  /\ At(i, p, "checkFilterOrderAccess")
  /\ Logged(i, p, <<Ev(Fr(i, p), "checkFilterOrderAccess", {}, {}, NoItem)>>)
  /\ \E allowed \in BOOLEAN :
       IF allowed
       THEN Goto(i, p, "getAccessControlledItem") /\ outcome' = outcome
       ELSE Raise(i, p, Err(i, "filterAccessError", {}))
  /\ UNCHANGED <<unchangedShared, store, limiter>>

\* (variant) deleteSingle resolves input like updateSingle
AfterAccessPcResolves(f) == "resolveFields"

\* what follows the access-controlled fetch: updateSingle resolves the input,
\* deleteSingle has no input and goes on to validation
AfterAccessPc(f) == IF f.op = "delete" THEN "validateFields" ELSE "resolveFields"

\* (variant) a row that does not exist is reported as not found, a row the
\* filter excludes as access denied
GetAccessControlledItemNotFound(i, p) ==
  /\ At(i, p, "getAccessControlledItem")
  /\ LET f == Fr(i, p)
         found == FindUnique(f.list, f.where, accessFilters)
     IN IF RowIdOf(f.where) \notin RowIds(f.list)
        THEN /\ Logged(i, p, <<Ev(f, "findUnique", {}, {}, NoItem)>>)
             /\ Raise(i, p, Err(i, "notFoundError", {}))
        ELSE IF accessFilters.kind = "false"
        THEN /\ log' = log
             /\ Raise(i, p, AccessDenied(i))
        ELSE IF found = {}
             THEN /\ Logged(i, p, <<Ev(f, "findUnique", {}, {}, NoItem)>>)
                  /\ Raise(i, p, AccessDenied(i))
             ELSE \E row \in found : \E allowed \in BOOLEAN :
                    IF allowed
                    THEN /\ Logged(i, p, <<Ev(f, "findUnique", {}, {}, row)>>)
                         /\ frames' = [frames EXCEPT ![i][p] =
                              [f EXCEPT !.item = row, !.pc = AfterAccessPc(f)]]
                         /\ outcome' = outcome
                    ELSE /\ Logged(i, p, <<Ev(f, "findUnique", {}, {}, row),
                                           Ev(f, "itemAccessDenied", {}, {}, NoItem)>>)
                         /\ Raise(i, p, AccessDenied(i))
  /\ UNCHANGED <<unchangedShared, store, limiter>>

\* getAccessControlledItemForUpdate / ForDelete: a false filter is rejected
\* before the store, otherwise the row is read with the filter applied and
\* the item-level access function is asked
GetAccessControlledItem(i, p) ==
  /\ At(i, p, "getAccessControlledItem")
  /\ LET f == Fr(i, p)
         found == FindUnique(f.list, f.where, accessFilters)
     IN IF accessFilters.kind = "false"
        THEN /\ log' = log
             /\ Raise(i, p, AccessDenied(i))
        ELSE IF found = {}
             THEN /\ Logged(i, p, <<Ev(f, "findUnique", {}, {}, NoItem)>>)
                  /\ Raise(i, p, AccessDenied(i))
             ELSE \E row \in found : \E allowed \in BOOLEAN :
                    IF allowed
                    THEN /\ Logged(i, p, <<Ev(f, "findUnique", {}, {}, row)>>)
                         /\ frames' = [frames EXCEPT ![i][p] =
                              [f EXCEPT !.item = row, !.pc = AfterAccessPc(f)]]
                         /\ outcome' = outcome
                    ELSE /\ Logged(i, p, <<Ev(f, "findUnique", {}, {}, row),
                                           Ev(f, "itemAccessDenied", {}, {}, NoItem)>>)
                         /\ Raise(i, p, AccessDenied(i))
  /\ UNCHANGED <<unchangedShared, store, limiter>>

\* applyAccessControlForCreate over the raw input
ApplyAccessControlForCreate(i, p) ==
  /\ At(i, p, "applyAccessControlForCreate")
  /\ Logged(i, p, <<Ev(Fr(i, p), "applyAccessControlForCreate", {}, {}, NoItem)>>)
  /\ \E allowed \in BOOLEAN :
       IF allowed
       THEN Goto(i, p, "resolveFields") /\ outcome' = outcome
       ELSE Raise(i, p, AccessDenied(i))
  /\ UNCHANGED <<unchangedShared, store, limiter>>


\* ------------------------------------------------------------- getResolvedData
FieldTags(list, fs, sfx) == {<<list, f, sfx>> : f \in fs}

\* (variant) pass 1 rejects with the first resolver error only
ResolveFieldsFirstError(i, p) ==
  /\ At(i, p, "resolveFields")
  /\ \E bad \in Pass1Failures :
       LET first == IF bad = {} THEN 0
                    ELSE CHOOSE k \in DOMAIN NonRelationFields :
                           /\ NonRelationFields[k] \in bad
                           /\ \A j \in 1..(k - 1) : NonRelationFields[j] \notin bad
       IN
       /\ Logged(i, p, <<Ev(Fr(i, p), "inputResolver", SeqToSet(NonRelationFields), bad, NoItem)>>)
       /\ IF bad = {}
          THEN Goto(i, p, "resolveRelationships") /\ outcome' = outcome
          ELSE Raise(i, p, Err(i, "resolverError",
                              FieldTags(Fr(i, p).list, {NonRelationFields[first]}, "")))
  /\ UNCHANGED <<unchangedShared, store, limiter>>

\* pass 1: every non-relationship input resolver runs, errors are collected
ResolveFields(i, p) ==
  /\ At(i, p, "resolveFields")
  /\ \E bad \in Pass1Failures :
       /\ Logged(i, p, <<Ev(Fr(i, p), "inputResolver", SeqToSet(NonRelationFields), bad, NoItem)>>)
       /\ IF bad = {}
          THEN Goto(i, p, "resolveRelationships") /\ outcome' = outcome
          ELSE Raise(i, p, Err(i, "resolverError", FieldTags(Fr(i, p).list, bad, "")))
  /\ UNCHANGED <<unchangedShared, store, limiter>>

\* the errors a relationship resolver raises for an input, before any nested
\* create is awaited: a failed connect, or an ambiguous to-one input
ConnectTags(list, f, inp, found) ==
  IF DbFieldMode(f) = "one"
  THEN IF inp = "connect+create" \/ (inp = "connect" /\ ~found) THEN {<<list, f, "">>} ELSE {}
  ELSE IF inp \in {"connect", "connect+create"} /\ ~found THEN {<<list, f, "connect">>} ELSE {}

\* whether the resolver goes on to NestedMutationState.create
CallsNestedCreate(f, inp) ==
  \/ inp = "create"
  \/ inp = "connect+create" /\ DbFieldMode(f) = "many"

\* (variant) a RelationshipErrors aggregate is pushed as one error under the
\* field's tag
RelationshipTagsUnflattened(list, f, inp, found) ==
  IF inp \in {"undefined", "null"} THEN {}
  ELSE {<<t[1], t[2], "">> : t \in ConnectTags(list, f, inp, found)}

\* (variant) null is handed to the strategy, which rejects it
RelationshipTagsNullIsError(list, f, inp, found) ==
  IF inp = "undefined" THEN {}
  ELSE IF inp = "null" THEN {<<list, f, "">>}
  ELSE ConnectTags(list, f, inp, found)

\* the resolver handed to the field for its input: a no-op for undefined and
\* null, otherwise the strategy for (mode, operation); and what it raises
NoOpInput(inp) == inp \in {"undefined", "null"}
\* the field that was handed the no-op, with its input (kept in the frame
\* until the pass has ended)
NoOps(f, inp) == IF NoOpInput(inp) THEN {<<f, inp>>} ELSE {}
RelationshipTags(list, f, inp, found) ==
  IF NoOpInput(inp) THEN {} ELSE ConnectTags(list, f, inp, found)

\* what the access decision provider refused (nothing when it allowed)
Refused(allowed) == IF allowed THEN {} ELSE {"operationAccess"}

\* the call of one relationship field's input resolver by the mutation of
\* frame fr
ResolverEv(fr, g, inp, found) ==
  Ev(fr, "relationshipResolver", {g},
     {t[2] : t \in RelationshipTags(fr.list, g, inp, found)}, NoItem)

\* NestedMutationState.create(data, foreignList) as called by the resolver of
\* field g: the async function runs up to its first await, the call of
\* getOperationAccess
NestedCreate(fr, g, allowed) ==
  [Frame("nested", fr.path \o <<g>>, ForeignList(fr.list), "create", "nestedOperationAccess")
     EXCEPT !.access = allowed]

\* the items of the request whose input has asked for a nested create
NestingItems == {j \in Items : DOMAIN log[j] \ {<<>>} # {}}

\* pass 2: the map calls the input resolver of every relationship field, in
\* field order, in one synchronous run.  undefined and null get the no-op,
\* any other input the strategy for (mode, operation); a resolver that creates
\* calls NestedMutationState.create before it returns its promise.  The
\* mutation then awaits all of them.  (The inputs of a request ask for nested
\* creates in at most MaxNestingItems of its items, nestedLeft[i] in each.)
ResolveRelationships(i, p) ==
  /\ At(i, p, "resolveRelationships")
  /\ LET fr == Fr(i, p)
         rels == SeqToSet(RelationFields)
     IN \E inp \in [rels -> RelationInputs] :
        \E found \in [rels -> BOOLEAN] : \E allowed \in [rels -> BOOLEAN] :
          LET nested == {g \in rels : ~NoOpInput(inp[g]) /\ CallsNestedCreate(g, inp[g])}
              tags == UNION {RelationshipTags(fr.list, g, inp[g], found[g]) : g \in rels}
              started == {p \o <<g>> : g \in nested}
              handed == UNION {NoOps(g, inp[g]) : g \in rels}
              called == [k \in DOMAIN RelationFields |->
                           ResolverEv(fr, RelationFields[k], inp[RelationFields[k]],
                                      found[RelationFields[k]])]
          IN
          /\ \A g \in rels : inp[g] \in {"undefined", "null", "create"} => found[g]
          /\ \A g \in rels \ nested : allowed[g]
          /\ Cardinality(nested) <= nestedLeft[i]
          /\ nested # {} => Cardinality(NestingItems \cup {i}) <= MaxNestingItems
          /\ nestedLeft' = [nestedLeft EXCEPT ![i] = @ - Cardinality(nested)]
          /\ LoggedAll(i, [q \in {p} \cup started |->
                 IF q = p THEN called
                 ELSE <<Ev(NestedCreate(fr, Last(q), allowed[Last(q)]), "getOperationAccess",
                           {}, Refused(allowed[Last(q)]), NoItem)>>])
          /\ frames' = [frames EXCEPT ![i] =
               [q \in DOMAIN @ \cup started |->
                  IF q = p
                  THEN [fr EXCEPT !.pc = "awaitRelationships", !.errs = tags,
                                  !.noops = handed]
                  ELSE IF q \in started THEN NestedCreate(fr, Last(q), allowed[Last(q)])
                  ELSE @[q]]]
  /\ UNCHANGED <<op, mode, reqpc, operationAccess, accessFilters, calls, outcome, store, limiter,
                 resolvedData, data, uniqueFields>>

\* the end of pass 2, when every resolver has settled: one relationshipError
\* for all that failed
ResolveRelationshipsEnd(i, p) ==
  /\ At(i, p, "awaitRelationships")
  /\ Children(i, p) = {}
  /\ IF Fr(i, p).errs = {}
     THEN /\ frames' = [frames EXCEPT ![i][p] =
               [@ EXCEPT !.pc = PhaseAfter("awaitRelationships"), !.noops = {}]]
          /\ outcome' = outcome
     ELSE Raise(i, p, Err(i, "relationshipError", Fr(i, p).errs))
  /\ UNCHANGED <<unchangedShared, log, store, limiter>>

\* (variant) NestedMutationState.create goes on to createSingle whatever the
\* related list's create access says
NestedOperationAccessUngated(i, p) ==
  /\ At(i, p, "nestedOperationAccess")
  /\ Goto(i, p, "applyAccessControlForCreate") /\ outcome' = outcome
  /\ UNCHANGED <<unchangedShared, log, store, limiter>>

\* NestedMutationState.create: the related list's create access has answered
NestedOperationAccess(i, p) ==
  /\ At(i, p, "nestedOperationAccess")
  /\ IF Fr(i, p).access
     THEN Goto(i, p, "applyAccessControlForCreate") /\ outcome' = outcome
     ELSE Raise(i, p, AccessDenied(i))
  /\ UNCHANGED <<unchangedShared, log, store, limiter>>

\* what a list-level hook raised: the list itself (no field key) when it threw
ListFailed(ok) == IF ok THEN {} ELSE {""}

\* (variant) the field resolveInput hooks stop at the first one that throws
FieldResolveInputFailFast(i, p) ==
  /\ At(i, p, "fieldResolveInput")
  /\ \E bad \in HookFailures :
       LET first == IF bad = {} THEN 0
                    ELSE CHOOSE k \in DOMAIN FieldKeys :
                           /\ FieldKeys[k] \in bad
                           /\ \A j \in 1..(k - 1) : FieldKeys[j] \notin bad
           invoked == IF first = 0 THEN Fields ELSE {FieldKeys[j] : j \in 1..first}
           failed == IF first = 0 THEN {} ELSE {FieldKeys[first]}
       IN
       /\ Logged(i, p, <<Ev(Fr(i, p), "field.resolveInput", invoked, failed, Fr(i, p).item)>>)
       /\ IF bad = {}
          THEN Goto(i, p, PhaseAfter("fieldResolveInput")) /\ outcome' = outcome
          ELSE Raise(i, p, Err(i, "extensionError",
                              FieldTags(Fr(i, p).list, failed, "hooks.resolveInput")))
  /\ UNCHANGED <<unchangedShared, store, limiter>>

\* field resolveInput hooks, all of them, errors collected
FieldResolveInput(i, p) ==
  /\ At(i, p, "fieldResolveInput")
  /\ \E bad \in HookFailures :
       /\ Logged(i, p, <<Ev(Fr(i, p), "field.resolveInput", Fields, bad, Fr(i, p).item)>>)
       /\ IF bad = {}
          THEN Goto(i, p, PhaseAfter("fieldResolveInput")) /\ outcome' = outcome
          ELSE Raise(i, p, Err(i, "extensionError",
                              FieldTags(Fr(i, p).list, bad, "hooks.resolveInput")))
  /\ UNCHANGED <<unchangedShared, store, limiter>>

\* list resolveInput hook
ListResolveInput(i, p) ==
  /\ At(i, p, "listResolveInput")
  /\ \E ok \in BOOLEAN :
       /\ Logged(i, p, <<Ev(Fr(i, p), "list.resolveInput", {}, ListFailed(ok), Fr(i, p).item)>>)
       /\ IF ok
          THEN Goto(i, p, PhaseAfter("listResolveInput")) /\ outcome' = outcome
          ELSE Raise(i, p, Err(i, "extensionError", {<<Fr(i, p).list, "", "hooks.resolveInput">>}))
  /\ UNCHANGED <<unchangedShared, store, limiter>>

\* ------------------------------------------------------------- validate, beforeOperation
\* (variant) validateFields reports nothing and the pipeline goes on
ValidateFieldsContinues(i, p) ==
  /\ At(i, p, "validateFields")
  /\ \E bad \in HookFailures :
       /\ Logged(i, p, <<Ev(Fr(i, p), "field.validate", Fields, bad, Fr(i, p).item)>>)
       /\ Goto(i, p, PhaseAfter("validateFields")) /\ outcome' = outcome
  /\ UNCHANGED <<unchangedShared, store, limiter>>

\* validateFields: the field validate hooks, failures raised as one error
ValidateFields(i, p) ==
  /\ At(i, p, "validateFields")
  /\ \E bad \in HookFailures :
       /\ Logged(i, p, <<Ev(Fr(i, p), "field.validate", Fields, bad, Fr(i, p).item)>>)
       /\ IF bad = {}
          THEN Goto(i, p, PhaseAfter("validateFields")) /\ outcome' = outcome
          ELSE Raise(i, p, Err(i, "validationFailureError",
                              FieldTags(Fr(i, p).list, bad, "hooks.validate")))
  /\ UNCHANGED <<unchangedShared, store, limiter>>

\* validateList: the list validate hook
ValidateList(i, p) ==
  /\ At(i, p, "validateList")
  /\ \E ok \in BOOLEAN :
       /\ Logged(i, p, <<Ev(Fr(i, p), "list.validate", {}, ListFailed(ok), Fr(i, p).item)>>)
       /\ IF ok
          THEN Goto(i, p, PhaseAfter("validateList")) /\ outcome' = outcome
          ELSE Raise(i, p, Err(i, "validationFailureError", {<<Fr(i, p).list, "", "hooks.validate">>}))
  /\ UNCHANGED <<unchangedShared, store, limiter>>

\* (variant) the field hooks and the write follow a list beforeOperation hook
\* that threw
ListBeforeOperationContinues(i, p) ==
  /\ At(i, p, "listBeforeOperation")
  /\ \E ok \in BOOLEAN :
       /\ Logged(i, p, <<Ev(Fr(i, p), "list.beforeOperation", {}, ListFailed(ok), Fr(i, p).item)>>)
       /\ Goto(i, p, PhaseAfter("listBeforeOperation")) /\ outcome' = outcome
  /\ UNCHANGED <<unchangedShared, store, limiter>>

\* list beforeOperation hook
ListBeforeOperation(i, p) ==
  /\ At(i, p, "listBeforeOperation")
  /\ \E ok \in BOOLEAN :
       /\ Logged(i, p, <<Ev(Fr(i, p), "list.beforeOperation", {}, ListFailed(ok), Fr(i, p).item)>>)
       /\ IF ok
          THEN Goto(i, p, PhaseAfter("listBeforeOperation")) /\ outcome' = outcome
          ELSE Raise(i, p, Err(i, "hookError", {<<Fr(i, p).list, "", "hooks.beforeOperation">>}))
  /\ UNCHANGED <<unchangedShared, store, limiter>>

\* a for loop awaiting one field hook after the other: the fields invoked
\* when the k-th one throws (k = 0: none throws)
LoopInvoked(k) == IF k = 0 THEN Fields ELSE {FieldKeys[j] : j \in 1..k}
LoopFailed(k) == IF k = 0 THEN {} ELSE {FieldKeys[k]}
\* the hook of the k-th field may throw
HookMayThrow(k) == k \in LoopFailures
\* the loop's invocations so far, the k-th just made: one entry of the log,
\* opened by the first hook and extended by each one after it
LoopLogged(i, p, e, k) == IF k = 1 THEN Logged(i, p, <<e>>) ELSE Relogged(i, p, e)

\* one turn of the for loop over the field beforeOperation hooks: the hook of
\* the next field, in field order, is called and awaited
FieldBeforeOperation(i, p) ==
  /\ At(i, p, "fieldBeforeOperation")
  /\ LET f == Fr(i, p)
         k == f.hk + 1
     IN \E ok \in BOOLEAN :
          /\ ~ok => HookMayThrow(k)
          /\ LoopLogged(i, p, Ev(f, "field.beforeOperation", LoopInvoked(k),
                                 IF ok THEN {} ELSE LoopFailed(k), f.item), k)
          /\ IF ~ok
             THEN Raise(i, p, Err(i, "hookError",
                                 FieldTags(f.list, LoopFailed(k), "hooks.beforeOperation")))
             ELSE /\ frames' = [frames EXCEPT ![i][p] =
                       IF k = Len(FieldKeys)
                       THEN [f EXCEPT !.hk = 0, !.pc = AfterBeforeOperationPc(f)]
                       ELSE [f EXCEPT !.hk = k]]
                  /\ outcome' = outcome
  /\ UNCHANGED <<unchangedShared, store, limiter>>

\* the return statement of resolveInputForCreateOrUpdate: the write payload
\* is built from hookArgs.resolvedData, what getResolvedData returned (drawn
\* here, where it is read); that throws for a multi field that is undefined
\* or null
ReturnResolvedInput(i, p) ==
  /\ At(i, p, "transform")
  /\ \E rd \in HookResolvedDatas :
       LET f == Fr(i, p)
           throws == TransformThrows(ListFields, rd)
       IN /\ Logged(i, p, <<Ev(f, "transformForPrismaClient", {}, ListFailed(~throws), f.item)>>)
          /\ IF throws
             THEN Raise(i, p, Err(i, "typeError", {}))
             ELSE /\ frames' = [frames EXCEPT ![i][p] =
                       [f EXCEPT !.resolvedData = rd,
                                 !.data = transformForPrismaClient(ListFields, rd),
                                 !.pc = "writeLimit"]]
                  /\ outcome' = outcome
  /\ UNCHANGED <<unchangedShared, store, limiter>>

\* ------------------------------------------------------------- the write
\* the write limiter: callers queue, one write is in flight at a time
LimiterQueued(i, p) == [limiter EXCEPT !.queue = Append(@, <<i, p>>)]
LimiterGrants(i, p) ==
  limiter.holder = NoHolder /\ limiter.queue # <<>> /\ Head(limiter.queue) = <<i, p>>
LimiterGranted(i, p) == [holder |-> <<i, p>>, queue |-> Tail(limiter.queue)]
LimiterReleased == [limiter EXCEPT !.holder = NoHolder]

\* writeLimit(fn): the call joins the limiter's queue
RequestWrite(i, p) ==
  /\ At(i, p, "writeLimit")
  /\ limiter' = LimiterQueued(i, p)
  /\ Goto(i, p, "queued")
  /\ UNCHANGED <<unchangedShared, outcome, log, store>>

\* (variant) update and delete are called with the unique condition the
\* caller gave
StoreWhereAsGiven(f) == IF f.op = "create" THEN NoWhere ELSE f.where

\* the where argument of the store call: update({ where: { id: item.id } }),
\* delete({ where: { id: item.id } }); create has none
StoreWhere(f) == IF f.op = "create" THEN NoWhere ELSE [key |-> "id", val |-> f.item.id]
IssueStoreCall(i, p) ==
  frames' = [frames EXCEPT ![i][p] =
    [@ EXCEPT !.pc = "storeWrite", !.target = StoreWhere(Fr(i, p))]]

\* (variant) the store call is issued outside writeLimit: the mutation does
\* not wait for the slot and does not take it
IssueWriteUnlimited(i, p) ==
  /\ At(i, p, "queued")
  /\ limiter' = [limiter EXCEPT !.queue = SelectSeq(@, LAMBDA w : w # <<i, p>>)]
  /\ Logged(i, p, <<Ev(Fr(i, p), "storeWrite", {}, {}, Fr(i, p).item)>>)
  /\ IssueStoreCall(i, p)
  /\ UNCHANGED <<unchangedShared, outcome, store>>

\* the limiter runs the head of its queue when no write is in flight:
\* model.create / model.update / model.delete is issued
IssueWrite(i, p) ==
  /\ At(i, p, "queued")
  /\ LimiterGrants(i, p)
  /\ limiter' = LimiterGranted(i, p)
  /\ Logged(i, p, <<Ev(Fr(i, p), "storeWrite", {}, {}, Fr(i, p).item)>>)
  /\ IssueStoreCall(i, p)
  /\ UNCHANGED <<unchangedShared, outcome, store>>

\* the row a successful store call returns
WrittenRow(i, f) ==
  IF f.op = "create" THEN [id |-> NextId(f.list), v |-> DataOf(i, f)]
  ELSE IF f.op = "update" THEN [id |-> RowIdOf(f.target), v |-> DataOf(i, f)]
  ELSE CHOOSE r \in store[f.list] : r.id = RowIdOf(f.target)

StoreAfter(i, f) ==
  [store EXCEPT ![f.list] =
     IF f.op = "create" THEN @ \cup {WrittenRow(i, f)}
     ELSE IF f.op = "update" THEN {r \in @ : r.id # RowIdOf(f.target)} \cup {WrittenRow(i, f)}
     ELSE {r \in @ : r.id # RowIdOf(f.target)}]

\* (variant) NestedMutationState.create returns without recording the callback
ReturnNestedForgets(fs, p, row) == Without(fs, p)

\* NestedMutationState.create returns: the afterOperation of the nested create
\* is pushed on the state of the mutation that awaits it, whose field is resolved
ReturnNested(fs, p, row) ==
  LET f == fs[p]
      cb == [path |-> f.path, list |-> f.list, row |-> row, nms |-> f.nms]
  IN [Without(fs, p) EXCEPT ![Parent(p)].nms = Append(@, cb)]

\* what follows the store call in createSingle's callers, updateSingle, deleteSingle
AfterWritePc(f) == IF f.op = "delete" THEN "listAfterOperation" ELSE "drain"

\* (variant) the store call persists its write and then throws
StoreResultPartial(i, f, ok) == StoreAfter(i, f)

\* the store call either succeeds and persists, or throws and persists nothing
StoreResult(i, f, ok) == IF ok THEN StoreAfter(i, f) ELSE store

\* (variant) a nested create awaits its afterOperation like createOne does
DefersNothing(f) == FALSE

\* createSingle hands its afterOperation back to NestedMutationState.create,
\* which defers it; createOne, createMany and updateSingle await it at once
DefersAfterOperation(f) == f.kind = "nested"

\* (variant) a store call that failed is issued again
CompleteWriteRetries(i, p) ==
  /\ At(i, p, "storeWrite")
  /\ limiter' = LimiterReleased
  /\ LET f == Fr(i, p) IN
     \E ok \in BOOLEAN :
       /\ (f.op # "create" /\ RowIdOf(f.target) \notin RowIds(f.list)) => ~ok
       /\ store' = StoreResult(i, f, ok)
       /\ outcome' = outcome
       /\ IF ok
          THEN /\ Logged(i, p, <<Ev(f, "written", {}, {}, WrittenRow(i, f))>>)
               /\ IF DefersAfterOperation(f)
                  THEN frames' = [frames EXCEPT ![i] = ReturnNested(@, p, WrittenRow(i, f))]
                  ELSE frames' = [frames EXCEPT ![i][p] =
                         [f EXCEPT !.row = WrittenRow(i, f), !.pc = AfterWritePc(f)]]
          ELSE /\ Logged(i, p, <<Ev(f, "writeFailed", {}, {}, NoItem)>>)
               /\ Goto(i, p, "writeLimit")
  /\ UNCHANGED <<unchangedShared>>

\* (variant) the limiter's slot covers the whole of createSingle: the store
\* call of a nested create completes and the slot is kept
CompleteWriteKeepsSlot(i, p) ==
  /\ At(i, p, "storeWrite")
  /\ limiter' = IF DefersAfterOperation(Fr(i, p)) THEN limiter ELSE LimiterReleased
  /\ LET f == Fr(i, p) IN
     \E ok \in BOOLEAN :
       /\ (f.op # "create" /\ RowIdOf(f.target) \notin RowIds(f.list)) => ~ok
       /\ store' = StoreResult(i, f, ok)
       /\ IF ok
          THEN /\ Logged(i, p, <<Ev(f, "written", {}, {}, WrittenRow(i, f))>>)
               /\ outcome' = outcome
               /\ IF DefersAfterOperation(f)
                  THEN frames' = [frames EXCEPT ![i] = ReturnNested(@, p, WrittenRow(i, f))]
                  ELSE frames' = [frames EXCEPT ![i][p] =
                         [f EXCEPT !.row = WrittenRow(i, f), !.pc = AfterWritePc(f)]]
          ELSE /\ Logged(i, p, <<Ev(f, "writeFailed", {}, {}, NoItem)>>)
               /\ Raise(i, p, Err(i, "storeError", {}))
  /\ UNCHANGED <<unchangedShared>>

\* the store call completes and the limiter is released
CompleteWrite(i, p) ==
  /\ At(i, p, "storeWrite")
  /\ limiter' = LimiterReleased
  /\ LET f == Fr(i, p) IN
     \E ok \in BOOLEAN :
       /\ (f.op # "create" /\ RowIdOf(f.target) \notin RowIds(f.list)) => ~ok
       /\ store' = StoreResult(i, f, ok)
       /\ IF ok
          THEN /\ Logged(i, p, <<Ev(f, "written", {}, {}, WrittenRow(i, f))>>)
               /\ outcome' = outcome
               /\ IF DefersAfterOperation(f)
                  THEN frames' = [frames EXCEPT ![i] = ReturnNested(@, p, WrittenRow(i, f))]
                  ELSE frames' = [frames EXCEPT ![i][p] =
                         [f EXCEPT !.row = WrittenRow(i, f), !.pc = AfterWritePc(f)]]
          ELSE /\ Logged(i, p, <<Ev(f, "writeFailed", {}, {}, NoItem)>>)
               /\ Raise(i, p, Err(i, "storeError", {}))
  /\ UNCHANGED <<unchangedShared>>

\* ------------------------------------------------------------- afterOperation
\* the call of a deferred callback: () => afterOperation(item)
DeferredEv(cb) ==
  [ev |-> "deferredAfterOperation", path |-> cb.path, list |-> cb.list, op |-> "create",
   inv |-> {}, bad |-> {}, item |-> cb.row, orig |-> NoItem, where |-> NoWhere]

\* the callbacks that one call of NestedMutationState.afterOperation starts:
\* map calls each callback of the array, and each callback calls the
\* afterOperation of its own nested-mutation state before its first await
RECURSIVE Callbacks(_)
Callbacks(nms) ==
  IF nms = <<>> THEN <<>>
  ELSE <<Head(nms)>> \o Callbacks(Head(nms).nms) \o Callbacks(Tail(nms))

\* the afterOperation closure of a nested create, called and awaiting its
\* own callbacks
AfterFrame(cb) ==
  [Frame("after", cb.path, cb.list, "create", "awaitDrain") EXCEPT !.nms = cb.nms, !.row = cb.row]

\* the frames and the log entries of the callbacks cbs, all started
StartedFrames(fs, cbs) ==
  [q \in DOMAIN fs \cup {cbs[k].path : k \in DOMAIN cbs} |->
     IF \E k \in DOMAIN cbs : cbs[k].path = q
     THEN AfterFrame(cbs[CHOOSE k \in DOMAIN cbs : cbs[k].path = q])
     ELSE fs[q]]
StartedEvents(cbs) ==
  [q \in {cbs[k].path : k \in DOMAIN cbs} |->
     <<DeferredEv(cbs[CHOOSE k \in DOMAIN cbs : cbs[k].path = q])>>]

\* (variant) one NestedMutationState for the whole batch: the top-level drain
\* runs the callbacks recorded by every item
RECURSIVE BatchCallbacks(_)
BatchCallbacks(j) ==
  IF j > MaxItems THEN <<>>
  ELSE (IF <<>> \in DOMAIN frames[j] THEN frames[j][<<>>].nms ELSE <<>>) \o BatchCallbacks(j + 1)

DrainStartShared(i, p) ==
  /\ At(i, p, "drain")
  /\ LET nms == IF Fr(i, p).kind = "top" THEN BatchCallbacks(1) ELSE Fr(i, p).nms
         cbs == Callbacks(nms)
     IN /\ frames' = [frames EXCEPT ![i] =
               StartedFrames([@ EXCEPT ![p].pc = "awaitDrain"], cbs)]
        /\ LoggedAll(i, StartedEvents(cbs))
  /\ UNCHANGED <<unchangedShared, outcome, store, limiter>>

\* the closure afterOperation(item) calls NestedMutationState.afterOperation,
\* which starts every deferred callback in one synchronous run and awaits
\* them together
DrainStart(i, p) ==
  /\ At(i, p, "drain")
  /\ LET cbs == Callbacks(Fr(i, p).nms)
     IN /\ frames' = [frames EXCEPT ![i] =
               StartedFrames([@ EXCEPT ![p].pc = "awaitDrain"], cbs)]
        /\ LoggedAll(i, StartedEvents(cbs))
  /\ UNCHANGED <<unchangedShared, outcome, store, limiter>>

\* all deferred callbacks have settled: reject with all their errors, or go on
DrainEnd(i, p) ==
  /\ At(i, p, "awaitDrain")
  /\ Children(i, p) = {}
  /\ IF Fr(i, p).derrs = {}
     THEN Goto(i, p, PhaseAfter("awaitDrain")) /\ outcome' = outcome
     ELSE Raise(i, p, Err(i, "nestedAfterOperationError", {}))
  /\ UNCHANGED <<unchangedShared, log, store, limiter>>

\* (variant) the afterOperation hooks of an update get the updated row
AfterItemPersisted(f) == IF f.op = "delete" THEN NoItem ELSE f.row

\* the item and originalItem the afterOperation hooks are handed
AfterItem(f) == IF f.op = "delete" THEN NoItem ELSE f.item
AfterOriginalItem(f) == IF f.op = "delete" THEN f.item ELSE NoItem

\* list afterOperation hook
ListAfterOperation(i, p) ==
  /\ At(i, p, "listAfterOperation")
  /\ \E ok \in BOOLEAN :
       /\ Logged(i, p, <<EvO(Fr(i, p), "list.afterOperation", {}, ListFailed(ok),
                             AfterItem(Fr(i, p)), AfterOriginalItem(Fr(i, p)))>>)
       /\ IF ok
          THEN Goto(i, p, PhaseAfter("listAfterOperation")) /\ outcome' = outcome
          ELSE Raise(i, p, Err(i, "hookError", {<<Fr(i, p).list, "", "hooks.afterOperation">>}))
  /\ UNCHANGED <<unchangedShared, store, limiter>>

\* one turn of the for loop over the field afterOperation hooks: the hook of
\* the next field, in field order, is called and awaited
FieldAfterOperation(i, p) ==
  /\ At(i, p, "fieldAfterOperation")
  /\ LET f == Fr(i, p)
         k == f.hk + 1
     IN \E ok \in BOOLEAN :
          /\ ~ok => HookMayThrow(k)
          /\ LoopLogged(i, p, EvO(f, "field.afterOperation", LoopInvoked(k),
                                  IF ok THEN {} ELSE LoopFailed(k),
                                  AfterItem(f), AfterOriginalItem(f)), k)
          /\ IF ~ok
             THEN Raise(i, p, Err(i, "hookError",
                                 FieldTags(f.list, LoopFailed(k), "hooks.afterOperation")))
             ELSE /\ frames' = [frames EXCEPT ![i][p] =
                       IF k = Len(FieldKeys)
                       THEN [f EXCEPT !.hk = 0, !.pc = PhaseAfter("fieldAfterOperation")]
                       ELSE [f EXCEPT !.hk = k]]
                  /\ outcome' = outcome
  /\ UNCHANGED <<unchangedShared, store, limiter>>

\* the async function returns: the item's promise resolves with the row, or
\* the deferred callback settles
ReturnFrames(fs, p) == IF fs[p].kind = "top" THEN NoFrames ELSE Without(fs, p)

\* the last field afterOperation hook has settled and the mutation returns
ReturnItem(i, p) ==
  /\ At(i, p, "return")
  /\ frames' = [frames EXCEPT ![i] = ReturnFrames(@, p)]
  /\ outcome' = IF Fr(i, p).kind = "top"
                THEN [outcome EXCEPT ![i] = Committed(Fr(i, p).row)]
                ELSE outcome
  /\ UNCHANGED <<unchangedShared, log, store, limiter>>

\* ------------------------------------------------------------- specification
FrameStep(i, p) ==
  \/ ResolveUniqueWhereInput(i, p)
  \/ CheckFilterOrderAccess(i, p)
  \/ GetAccessControlledItem(i, p)
  \/ ApplyAccessControlForCreate(i, p)
  \/ ResolveFields(i, p)
  \/ ResolveRelationships(i, p)
  \/ ResolveRelationshipsEnd(i, p)
  \/ NestedOperationAccess(i, p)
  \/ FieldResolveInput(i, p)
  \/ ListResolveInput(i, p)
  \/ ValidateFields(i, p)
  \/ ValidateList(i, p)
  \/ ListBeforeOperation(i, p)
  \/ FieldBeforeOperation(i, p)
  \/ ReturnResolvedInput(i, p)
  \/ RequestWrite(i, p)
  \/ IssueWrite(i, p)
  \/ CompleteWrite(i, p)
  \/ DrainStart(i, p)
  \/ DrainEnd(i, p)
  \/ ListAfterOperation(i, p)
  \/ FieldAfterOperation(i, p)
  \/ ReturnItem(i, p)

ItemStep(i) ==
  \/ StartItem(i)
  \/ \E p \in DOMAIN frames[i] : FrameStep(i, p)

Next ==
  \/ GetOperationAccess
  \/ GetAccessFilters
  \/ \E i \in Items : ItemStep(i)

Spec == Init /\ [][Next]_vars

\* the event loop runs a ready continuation, and the store answers every call
FairSpec == Spec /\ WF_vars(Next)
SpecDeep == InitDeep /\ [][Next]_vars
FairSpecDeep == SpecDeep /\ WF_vars(Next)

\* the orchestrators on a list with a unique slug beside the id
InitUnique ==
  /\ op \in Ops
  /\ mode \in Modes
  /\ reqpc = "operationAccess"
  /\ operationAccess = FALSE
  /\ accessFilters = NoFilter
  /\ calls = [operationAccess |-> 0, accessFilters |-> 0]
  /\ frames = [i \in Items |-> NoFrames]
  /\ outcome = [i \in Items |-> Pending]
  /\ log = [i \in Items |-> NoLogs]
  /\ store = InitialStore
  /\ limiter = [holder |-> NoHolder, queue |-> <<>>]
  /\ nestedLeft = [i \in Items |-> MaxNested]
  /\ resolvedData = NoData /\ data = NoData
  /\ uniqueFields = {"id", "slug"}
SpecUnique == InitUnique /\ [][Next]_vars

\* transformForPrismaClient on its own: one call for each resolved data
InitTransform ==
  /\ op \in {"create", "update"}
  /\ mode = "one"
  /\ reqpc = "transform"
  /\ operationAccess = TRUE
  /\ accessFilters = NoFilter
  /\ calls = [operationAccess |-> 0, accessFilters |-> 0]
  /\ frames = [i \in Items |-> NoFrames]
  /\ outcome = [i \in Items |-> Pending]
  /\ log = [i \in Items |-> NoLogs]
  /\ store = InitialStore
  /\ limiter = [holder |-> NoHolder, queue |-> <<>>]
  /\ nestedLeft = [i \in Items |-> 0]
  /\ resolvedData \in ResolvedDatas
  /\ data = NoData
  /\ uniqueFields = {"id"}

\* the call returns the payload, or throws
Transform ==
  /\ reqpc = "transform"
  /\ data' = transformForPrismaClient(TransformFields, resolvedData)
  /\ reqpc' = IF TransformThrows(TransformFields, resolvedData) THEN "typeError" ELSE "transformed"
  /\ UNCHANGED <<op, mode, operationAccess, accessFilters, calls, frames, outcome, log, store,
                 limiter, nestedLeft, resolvedData, uniqueFields>>

NextTransform == Transform
SpecTransform == InitTransform /\ [][NextTransform]_vars

\* ------------------------------------------------------------- properties
Finished(i) == outcome[i] # Pending
Failed(i) == outcome[i].kind = "error"
IsCommitted(i) == outcome[i].kind = "item"
AccessComputed == calls.operationAccess > 0
\* the paths a mutation of the model can have
PathsUpTo(d) == UNION {[1..n -> SeqToSet(RelationFields)] : n \in 0..d}
Paths == PathsUpTo(MaxNestedDeep)
\* the mutations of item i that have invoked something
PathsOf(i) == DOMAIN log[i]
\* the events of item i that mutation `path` logged under one of the names
EventsOf(i, path, names) == SelectSeq(LogOf(i, path), LAMBDA e : e.ev \in names)
HasEvent(i, path, names) == \E k \in DOMAIN LogOf(i, path) : LogOf(i, path)[k].ev \in names
\* everything item i has invoked, in any of its mutations
AllEvents(i) == UNION {{log[i][p][k] : k \in DOMAIN log[i][p]} : p \in DOMAIN log[i]}
TopLog(i) == LogOf(i, <<>>)

\* C1: when operationAccess is false, every item of every orchestrator ends
\* with AccessDeniedError, nothing is invoked and the store is never called:
\* no item ever runs or logs anything, the store and the limiter stay as
\* they were, and the call goes on until every item has its error.
C1_DeniedOperationDoesNothing ==
  (AccessComputed /\ ~operationAccess) =>
    /\ \A i \in BatchItems :
         /\ ~Running(i) /\ PathsOf(i) = {}
         /\ Finished(i) => outcome[i] = AccessDenied(i)
    /\ store = InitialStore
    /\ limiter = [holder |-> NoHolder, queue |-> <<>>]
    /\ (\A i \in BatchItems : Finished(i)) \/ ENABLED Next

C1_Witness ==
  /\ AccessComputed /\ ~operationAccess
  /\ mode = "many" /\ op = "update"
  /\ \A i \in BatchItems : outcome[i] = AccessDenied(i)

\* C2: a batch yields one outcome per input, in place; an error is the
\* outcome of the item that raised it only; the row an item returns is the row
\* its own store call wrote; and no item is ever held up by another one's
\* failure: a running item can take a step unless it waits in the limiter's
\* queue behind writes of mutations that are themselves running.
LimiterLive ==
  /\ limiter.holder # NoHolder => At(limiter.holder[1], limiter.holder[2], "storeWrite")
  /\ \A k \in DOMAIN limiter.queue : At(limiter.queue[k][1], limiter.queue[k][2], "queued")

C2_BatchIsolation ==
  \A i \in Items :
    /\ Finished(i) => i \in BatchItems
    /\ Failed(i) => outcome[i].origin = i
    /\ IsCommitted(i) =>
         \E k \in DOMAIN TopLog(i) :
           /\ TopLog(i)[k].ev = "written"
           /\ TopLog(i)[k].item = outcome[i].row
           /\ op # "delete" => outcome[i].row.v.by = i
    /\ Running(i) =>
         \/ ENABLED ItemStep(i)
         \/ /\ \E p \in DOMAIN frames[i] :
                 /\ At(i, p, "queued")
                 /\ \E k \in DOMAIN limiter.queue : limiter.queue[k] = <<i, p>>
            /\ LimiterLive

C2_Witness ==
  /\ mode = "many" /\ op = "update"
  /\ Failed(1) /\ outcome[1].type = "validationFailureError"
  /\ IsCommitted(2)

\* C3: an afterOperation hook of a nested create has run only when the
\* top-level store write of the enclosing mutation has succeeded (in every
\* state, hence only after it).
AfterEvents == {"list.afterOperation", "field.afterOperation"}
HasWritten(i, path) == HasEvent(i, path, {"written"})
NestedAfterOperationRan(i) ==
  \E p \in PathsOf(i) \ {<<>>} : HasEvent(i, p, AfterEvents)

C3_NestedAfterOperationDeferred ==
  \A i \in Items : NestedAfterOperationRan(i) => HasWritten(i, <<>>)

C3_Witness ==
  \E i \in Items : NestedAfterOperationRan(i) /\ IsCommitted(i)

\* C4 (as claimed): an item that ends with an error has had no row created,
\* updated or deleted on its behalf, rows of nested creates and failures
\* raised after the write included.
WroteAnything(i) == \E p \in PathsOf(i) : HasWritten(i, p)

C4_FailedItemWroteNothing ==
  \A i \in Items : Failed(i) => ~WroteAnything(i)

\* C4 (amended): the rows of the store change through successful store calls
\* only, and an item that fails before its own store call has succeeded has
\* not created, updated or deleted its own row.  (Rows written by nested
\* creates stay when the item fails later, and so does the item's own row
\* when an afterOperation hook fails after the write.)
StoreMatchesWrites ==
  /\ \A l \in ListKeys : \A r \in store[l] :
       r.v.by # 0 =>
         \E k \in DOMAIN LogOf(r.v.by, r.v.path) :
           LET e == LogOf(r.v.by, r.v.path)[k] IN
           e.ev = "written" /\ e.list = l /\ e.item = r
  /\ (\A j \in Items : ~WroteAnything(j)) => store = InitialStore

C4_FailedBeforeWriteLeavesOwnRow ==
  /\ StoreMatchesWrites
  /\ \A i \in Items :
       (Failed(i) /\ ~HasWritten(i, <<>>)) =>
         \A l \in ListKeys : \A r \in store[l] : r.v # [by |-> i, path |-> <<>>]

C4_Witness ==
  \E i \in Items :
    /\ Failed(i) /\ outcome[i].type = "storeError"
    /\ HasEvent(i, <<>>, {"writeFailed"})

\* C5: for every create and update (nested creates included) the hooks run
\* in the order field resolveInput, list resolveInput, field validate, list
\* validate, list beforeOperation, field beforeOperation, store write, list
\* afterOperation, field afterOperation, each phase starting only after
\* every hook of the phase before it has returned.
HookOrder ==
  <<"field.resolveInput", "list.resolveInput", "field.validate", "list.validate",
    "list.beforeOperation", "field.beforeOperation", "storeWrite",
    "list.afterOperation", "field.afterOperation">>

InOrder(s, order) ==
  \A k \in DOMAIN s :
    /\ k <= Len(order)
    /\ s[k].ev = order[k]
    /\ k > 1 => s[k - 1].bad = {} /\ s[k - 1].inv \in {{}, Fields}

C5_HookOrder ==
  op \in {"create", "update"} =>
    \A i \in Items : \A path \in PathsOf(i) :
      InOrder(EventsOf(i, path, SeqToSet(HookOrder)), HookOrder)

C5_Witness ==
  \E i \in Items :
    /\ op = "update" /\ IsCommitted(i)
    /\ Len(EventsOf(i, <<>>, SeqToSet(HookOrder))) = Len(HookOrder)

\* C6: a delete runs field validate, list validate, list beforeOperation,
\* field beforeOperation, one store delete, list afterOperation, field
\* afterOperation, in this order, and never an input resolver or a
\* resolveInput hook.
DeleteOrder ==
  <<"field.validate", "list.validate", "list.beforeOperation", "field.beforeOperation",
    "storeWrite", "list.afterOperation", "field.afterOperation">>

ResolutionEvents ==
  {"inputResolver", "relationshipResolver", "field.resolveInput", "list.resolveInput",
   "applyAccessControlForCreate"}

C6_DeleteOrder ==
  op = "delete" =>
    \A i \in Items :
      /\ InOrder(EventsOf(i, <<>>, SeqToSet(DeleteOrder)), DeleteOrder)
      /\ PathsOf(i) \subseteq {<<>>}
      /\ \A e \in AllEvents(i) : e.ev \notin ResolutionEvents /\ e.op = "delete"

C6_Witness ==
  \E i \in Items :
    /\ op = "delete" /\ IsCommitted(i)
    /\ Len(EventsOf(i, <<>>, SeqToSet(DeleteOrder))) = Len(DeleteOrder)

\* C7: no mutation issues more than one store write (a failed write is not
\* issued again), and a committed item has issued exactly one, of its own
\* operation kind, on its own list and row.
StoreWrites(i, path) == EventsOf(i, path, {"storeWrite"})
FetchedRow(i) == EventsOf(i, <<>>, {"findUnique"})[1].item

C7_OneStoreWrite ==
  \A i \in Items :
    /\ \A path \in PathsOf(i) : Len(StoreWrites(i, path)) <= 1
    /\ IsCommitted(i) =>
         /\ Len(StoreWrites(i, <<>>)) = 1
         /\ StoreWrites(i, <<>>)[1].op = op
         /\ StoreWrites(i, <<>>)[1].list = TopList
         /\ op # "create" => StoreWrites(i, <<>>)[1].item = FetchedRow(i)
         /\ op # "create" => outcome[i].row.id = FetchedRow(i).id

C7_Witness ==
  \E i \in Items :
    /\ Failed(i) /\ outcome[i].type = "storeError"
    /\ Len(StoreWrites(i, <<>>)) = 1
    /\ \E j \in Items : IsCommitted(j)

\* C8: every store write is issued by the holder of the write limiter, at
\* most one store write is in flight at any moment, over all items and all
\* their nested creates; the store changes only while a write holds the
\* limiter; a mutation leaves the limiter's queue only by issuing its write,
\* and the queue always empties: a mutation that queued gets to issue its write.
InFlight == {w \in Items \X Paths : At(w[1], w[2], "storeWrite")}
IssuesStoreWrite(i, p) ==
  /\ p \in DOMAIN log'[i]
  /\ Len(log'[i][p]) = Len(LogOf(i, p)) + 1
  /\ log'[i][p][Len(log'[i][p])].ev = "storeWrite"
Queued(w) == \E k \in DOMAIN limiter.queue : limiter.queue[k] = w
LeavesQueue(w) == Queued(w) /\ ~(\E k \in DOMAIN limiter'.queue : limiter'.queue[k] = w)

C8_WriteLimiter ==
  /\ [](Cardinality(InFlight) <= 1 /\ \A w \in InFlight : limiter.holder = w)
  /\ [][/\ \A i \in Items : \A p \in Paths :
             /\ IssuesStoreWrite(i, p) =>
                  limiter.holder = NoHolder /\ limiter'.holder = <<i, p>>
             /\ LeavesQueue(<<i, p>>) =>
                  IssuesStoreWrite(i, p) /\ frames'[i][p].pc = "storeWrite"
        /\ store' # store => limiter.holder # NoHolder /\ limiter'.holder = NoHolder]_vars
  /\ (limiter.queue # <<>>) ~> (limiter.queue = <<>>)

\* the limiter is busy with another item's write while a nested create waits
C8_Witness ==
  \E i, j \in Items : \E p \in Paths :
    /\ i # j /\ p # <<>>
    /\ At(i, <<>>, "storeWrite") /\ At(j, p, "queued")

\* C9 (as claimed): when two or more fields raise in one input-resolver
\* pass, all resolvers of the pass were invoked, the combined error names
\* each failing field, and no store call was made for the mutation.
Pass1Event(i) == EventsOf(i, <<>>, {"inputResolver"})[1]
Pass1Raised(i) == IF HasEvent(i, <<>>, {"inputResolver"}) THEN Pass1Event(i).bad ELSE {}
\* a relationship field raised: its connect failed or its input was
\* ambiguous, or the nested create it started did not return a row
Pass2Raised(i) ==
  {f \in SeqToSet(RelationFields) :
     \/ \E e \in SeqToSet(EventsOf(i, <<>>, {"relationshipResolver"})) : f \in e.bad
     \/ HasEvent(i, <<f>>, {"getOperationAccess"}) /\ ~HasWritten(i, <<f>>)}
Pass2Invoked(i) ==
  UNION {e.inv : e \in SeqToSet(EventsOf(i, <<>>, {"relationshipResolver"}))}
TaggedFields(e) == {t[2] : t \in e.tags}
NoStoreWriteAtAll(i) == \A e \in AllEvents(i) : e.ev # "storeWrite"

PassAggregates(i) ==
  /\ Cardinality(Pass1Raised(i)) >= 2 =>
       /\ Pass1Event(i).inv = SeqToSet(NonRelationFields)
       /\ outcome[i] = Err(i, "resolverError", FieldTags(TopList, Pass1Raised(i), ""))
  /\ Cardinality(Pass2Raised(i)) >= 2 =>
       /\ Pass2Invoked(i) = SeqToSet(RelationFields)
       /\ outcome[i].type = "relationshipError"
       /\ TaggedFields(outcome[i]) = Pass2Raised(i)
       /\ \A t \in outcome[i].tags : t[1] = TopList

C9_AggregatedAndNoStoreCall ==
  \A i \in Items : Finished(i) =>
    /\ PassAggregates(i)
    /\ (Cardinality(Pass1Raised(i)) >= 2 \/ Cardinality(Pass2Raised(i)) >= 2) =>
         NoStoreWriteAtAll(i)

\* C9 (amended): ... and the mutation's own store write is never issued;
\* after a failing pass 1 no store write at all was issued, while in pass 2
\* the nested creates of the pass may already have issued theirs.
C9_AggregatedAndNoOwnWrite ==
  \A i \in Items : Finished(i) =>
    /\ PassAggregates(i)
    /\ Cardinality(Pass1Raised(i)) >= 2 => NoStoreWriteAtAll(i)
    /\ Cardinality(Pass2Raised(i)) >= 2 => StoreWrites(i, <<>>) = <<>>

\* pass 1 with two failing resolvers, and pass 2 with two failing fields one
\* of which had its nested create issue a store write
C9_Witness ==
  \E i, j \in Items :
    /\ Finished(i) /\ Cardinality(Pass1Raised(i)) >= 2
    /\ Finished(j) /\ Cardinality(Pass2Raised(j)) >= 2 /\ ~NoStoreWriteAtAll(j)

\* C10: an update or delete starts with resolveUniqueWhereInput, then
\* checkFilterOrderAccess, then the access-filtered fetch; a resolver, hook
\* or store write is invoked only after all three succeeded; the row handed
\* to every hook and targeted by the write is the fetched row, and that row
\* passes the access filter.
AccessPrefix == <<"resolveUniqueWhereInput", "checkFilterOrderAccess", "findUnique">>
HookEvents ==
  {"field.resolveInput", "list.resolveInput", "field.validate", "list.validate",
   "list.beforeOperation", "field.beforeOperation", "list.afterOperation",
   "field.afterOperation"}
RowSeen(e) == IF e.op = "delete" /\ e.ev \in {"list.afterOperation", "field.afterOperation"}
              THEN e.orig ELSE e.item
PassesFilter(row) == accessFilters.kind = "true" \/ row.id \in accessFilters.ids

C10_AccessBeforeHooks ==
  op \in {"update", "delete"} =>
    \A i \in Items :
      /\ \A k \in DOMAIN TopLog(i) :
           LET e == TopLog(i)[k] IN
           /\ k <= 3 => e.ev = AccessPrefix[k]
           /\ k > 3 =>
                /\ TopLog(i)[3].item # NoItem /\ PassesFilter(TopLog(i)[3].item)
                /\ e.ev = "itemAccessDenied" => k = 4 /\ Len(TopLog(i)) = 4
                /\ e.ev \in HookEvents \cup {"storeWrite"} => RowSeen(e) = TopLog(i)[3].item
      /\ PathsOf(i) \ {<<>>} # {} =>
           /\ Len(TopLog(i)) > 3
           /\ TopLog(i)[4].ev # "itemAccessDenied"

C10_Witness ==
  \E i \in Items :
    /\ op = "update" /\ IsCommitted(i)
    /\ HasEvent(i, <<>>, {"field.afterOperation"})
    /\ TopLog(i)[3].item # outcome[i].row

\* C11: an update or delete whose target row is excluded by the access
\* filter ends exactly like one whose target row does not exist: the fetch
\* step ends the item with the same AccessDeniedError, no hook has been or
\* will be invoked, no store write is issued, store and limiter are untouched.
FetchStep(i) == At(i, <<>>, "getAccessControlledItem") /\ frames'[i] # frames[i]
TargetMissing(i) == RowIdOf(Fr(i, <<>>).where) \notin RowIds(Fr(i, <<>>).list)
TargetExcluded(i) ==
  /\ RowIdOf(Fr(i, <<>>).where) \in RowIds(Fr(i, <<>>).list)
  /\ \/ accessFilters.kind = "false"
     \/ accessFilters.kind = "where" /\ RowIdOf(Fr(i, <<>>).where) \notin accessFilters.ids
DeniedWithoutTrace(i) ==
  /\ outcome'[i] = AccessDenied(i)
  /\ frames'[i] = NoFrames
  /\ store' = store /\ limiter' = limiter
  /\ DOMAIN log'[i] = {<<>>}
  /\ \A k \in DOMAIN log'[i][<<>>] :
       log'[i][<<>>][k].ev \notin HookEvents \cup {"inputResolver",
         "relationshipResolver", "storeWrite", "written", "writeFailed"}

C11_ExcludedLikeMissing ==
  [][\A i \in Items :
       (FetchStep(i) /\ (TargetMissing(i) \/ TargetExcluded(i))) => DeniedWithoutTrace(i)]_vars

\* one item of a batch asked for a row the filter excludes, another one for a
\* row that never existed, and both were denied
FetchDenied(i, id) ==
  /\ outcome[i] = AccessDenied(i)
  /\ Len(TopLog(i)) = 3
  /\ TopLog(i)[3].ev = "findUnique" /\ TopLog(i)[3].item = NoItem
  /\ TopLog(i)[3].where = [key |-> "id", val |-> id]
C11_Witness ==
  /\ op \in {"update", "delete"} /\ accessFilters.kind = "where"
  /\ \E i, j \in Items : \E x \in InitialIds \ accessFilters.ids :
       \E y \in accessFilters.ids \ InitialIds :
         /\ x \in RowIds(TopList)
         /\ FetchDenied(i, x) /\ FetchDenied(j, y)

\* C12: a ...Many call asks for operationAccess exactly once and, for update
\* and delete, for the access filter exactly once, before any of its items
\* runs and however many items it has; when operationAccess is false the call
\* does not throw: it goes on to its items, and each of them ends with its own
\* AccessDeniedError.
C12_AccessOncePerBatch ==
  mode = "many" =>
    /\ calls.operationAccess <= 1 /\ calls.accessFilters <= 1
    /\ reqpc = "items" =>
         /\ calls.operationAccess = 1
         /\ calls.accessFilters = IF op = "create" THEN 0 ELSE 1
    /\ (\E i \in Items : Running(i) \/ Finished(i)) => reqpc = "items"
    /\ (AccessComputed /\ ~operationAccess) =>
         /\ reqpc # "done"
         /\ \A i \in BatchItems : Finished(i) => outcome[i] = AccessDenied(i)
         /\ reqpc = "items" =>
              \/ \A i \in BatchItems : Finished(i)
              \/ \E i \in BatchItems : ENABLED StartItem(i)

C12_Witness ==
  /\ mode = "many" /\ op = "delete"
  /\ calls = [operationAccess |-> 1, accessFilters |-> 1]
  /\ ~operationAccess
  /\ Cardinality(BatchItems) = MaxItems
  /\ \A i \in BatchItems : outcome[i] = AccessDenied(i)

\* C13: a create asks for no access filter and fetches no row; the create
\* access check over the raw input is the first thing createSingle does, ahead
\* of every resolver, hook and store call of that create (top level or
\* nested); and a top-level create it denies ends with AccessDeniedError
\* having invoked nothing else.
FetchEvents == {"resolveUniqueWhereInput", "checkFilterOrderAccess", "findUnique", "itemAccessDenied"}
C13_CreateGates ==
  \A i \in Items :
    /\ op = "create" => calls.accessFilters = 0 /\ accessFilters = NoFilter
    /\ \A p \in PathsOf(i) : \A k \in DOMAIN log[i][p] :
         LET e == log[i][p][k] IN
         e.op = "create" =>
           /\ e.ev \notin FetchEvents
           /\ e.ev \notin {"getOperationAccess", "applyAccessControlForCreate"} =>
                \E j \in 1..(k - 1) : log[i][p][j].ev = "applyAccessControlForCreate"
    /\ (op = "create" /\ Finished(i) /\ operationAccess) =>
         (outcome[i] = AccessDenied(i) <=>
            (Len(TopLog(i)) = 1 /\ TopLog(i)[1].ev = "applyAccessControlForCreate"))

C13_Witness ==
  /\ op = "create" /\ operationAccess
  /\ \E i, j \in Items :
       /\ outcome[i] = AccessDenied(i)
       /\ Len(TopLog(i)) = 1 /\ TopLog(i)[1].ev = "applyAccessControlForCreate"
       /\ IsCommitted(j) /\ HasEvent(j, <<>>, {"field.resolveInput"})

\* C14: after a successful create or update, the list and field
\* afterOperation hooks are handed the persisted item the store write
\* returned, which is the item the orchestrator returns.
C14_AfterOperationGetsPersistedItem ==
  \A i \in Items : \A p \in PathsOf(i) : \A k \in DOMAIN log[i][p] :
    LET e == log[i][p][k] IN
    (e.ev \in AfterEvents /\ e.op \in {"create", "update"}) =>
      /\ \E j \in 1..(k - 1) :
           /\ log[i][p][j].ev = "written"
           /\ e.item = log[i][p][j].item
      /\ (p = <<>> /\ IsCommitted(i)) => e.item = outcome[i].row

\* a create committed and returned its row, and its afterOperation hooks were
\* handed no item at all
C14_Witness ==
  \E i \in Items :
    /\ op = "create" /\ IsCommitted(i) /\ outcome[i].row.id # 0
    /\ \E e \in SeqToSet(EventsOf(i, <<>>, {"field.afterOperation"})) : e.item = NoItem

\* C15 (as claimed): the deferred afterOperation callback of a nested create,
\* at any depth, runs at most once and only when the top-level write has
\* succeeded; it has run exactly once when the top-level mutation committed
\* and not at all when the top-level mutation failed.
NestedWritten(i) == {p \in PathsOf(i) : p # <<>> /\ HasWritten(i, p)}
CallbackRuns(i, p) == Len(EventsOf(i, p, {"deferredAfterOperation"}))
DeferredUntilTopWrite(i) ==
  \A p \in PathsOf(i) :
    /\ CallbackRuns(i, p) <= 1
    /\ CallbackRuns(i, p) = 1 => HasWritten(i, <<>>) /\ p \in NestedWritten(i)

C15_DrainedOnceZeroOnFailure ==
  \A i \in Items :
    /\ DeferredUntilTopWrite(i)
    /\ IsCommitted(i) => \A p \in NestedWritten(i) : CallbackRuns(i, p) = 1
    /\ Failed(i) => \A p \in NestedWritten(i) : CallbackRuns(i, p) = 0

\* C15 (amended): ... it has run exactly once when the top-level mutation has
\* ended after its own write succeeded (committed, or failed in an
\* afterOperation step), and not at all when it ended without that write.
C15_DrainedOnceAfterTopWrite ==
  \A i \in Items :
    /\ DeferredUntilTopWrite(i)
    /\ (Finished(i) /\ HasWritten(i, <<>>)) =>
         \A p \in NestedWritten(i) : CallbackRuns(i, p) = 1
    /\ (Finished(i) /\ ~HasWritten(i, <<>>)) =>
         \A p \in NestedWritten(i) : CallbackRuns(i, p) = 0

\* nested creates two levels deep, each callback run once: on a committed
\* mutation; and on one that failed after its write
C15_Witness ==
  \E i \in Items : \E p \in NestedWritten(i) :
    /\ Len(p) = 2
    /\ Finished(i) /\ HasWritten(i, <<>>)
    /\ \A q \in NestedWritten(i) : CallbackRuns(i, q) = 1

\* C16: every nested create first asks for the related list's create
\* operationAccess; when that is false the nested create invokes nothing
\* else, issues no store write, and leaves no deferred afterOperation
\* callback (none is recorded, none ever runs), and the parent's relationship
\* field has failed.
NestedDenied(i, path) ==
  /\ LogOf(i, path) # <<>>
  /\ LogOf(i, path)[1].ev = "getOperationAccess"
  /\ LogOf(i, path)[1].bad # {}
\* the paths of the callbacks recorded in the frames of item i, at any depth
RecordedCallbacks(i) ==
  UNION {{Callbacks(Fr(i, q).nms)[c].path : c \in DOMAIN Callbacks(Fr(i, q).nms)} :
           q \in DOMAIN frames[i]}

MultiColumns == [name |-> [first |-> "name_first", last |-> "name_last", extra |-> "name_extra"]]
MultiFieldKeys == DOMAIN MultiColumns
JsonColumns == {"meta", "name_extra"}
Written(col, value) ==
  /\ col \in DOMAIN data
  /\ data[col] = IF col \in JsonColumns /\ value = Null THEN DbNull ELSE value
ExpectedColumns ==
  (DOMAIN resolvedData \ MultiFieldKeys) \cup
  UNION {{MultiColumns[f][sub] : sub \in DOMAIN resolvedData[f]} :
           f \in DOMAIN resolvedData \cap MultiFieldKeys}

C17_MultiFieldExpansion ==
  reqpc = "transformed" =>
    /\ \A f \in DOMAIN resolvedData \cap MultiFieldKeys :
         /\ f \notin DOMAIN data
         /\ \A sub \in DOMAIN resolvedData[f] : Written(MultiColumns[f][sub], resolvedData[f][sub])
    /\ \A f \in DOMAIN resolvedData \ MultiFieldKeys : Written(f, resolvedData[f])
    /\ DOMAIN data = ExpectedColumns

C17_Witness ==
  /\ reqpc = "transformed"
  /\ DOMAIN resolvedData = {"title", "name", "author"}
  /\ resolvedData["name"] = [first |-> Str("A"), last |-> Str("B")]
  /\ data = [title |-> resolvedData["title"], author |-> resolvedData["author"],
             name_first |-> Str("A"), name_last |-> Str("B")]

\* C18: the payload holds the set-null sentinel exactly where a Json column
\* (top-level, or a sub-field of a multi field) was given null; null for any
\* other column and every other value is written as it was given; and a key
\* absent from the resolved data has no entry in the payload.
SourceOf(col) ==
  IF col \in DOMAIN resolvedData \ MultiFieldKeys THEN resolvedData[col]
  ELSE IF \E f \in DOMAIN resolvedData \cap MultiFieldKeys :
            \E sub \in DOMAIN resolvedData[f] : MultiColumns[f][sub] = col
       THEN LET f == CHOOSE f \in DOMAIN resolvedData \cap MultiFieldKeys :
                       \E sub \in DOMAIN resolvedData[f] : MultiColumns[f][sub] = col
                sub == CHOOSE sub \in DOMAIN resolvedData[f] : MultiColumns[f][sub] = col
            IN resolvedData[f][sub]
       ELSE Absent

C18_JsonNullSentinel ==
  reqpc = "transformed" =>
    \A col \in {"title", "meta", "author", "name", "name_first", "name_last", "name_extra"} :
      /\ SourceOf(col) = Absent => col \notin DOMAIN data
      /\ SourceOf(col) # Absent =>
           /\ col \in DOMAIN data
           /\ (col \in JsonColumns /\ SourceOf(col) = Null) => data[col] = DbNull
           /\ ~(col \in JsonColumns /\ SourceOf(col) = Null) => data[col] = SourceOf(col)

\* an update that sets one Json column to null, leaves the other untouched,
\* and sets a non-Json column to null
C18_Witness ==
  /\ reqpc = "transformed" /\ op = "update"
  /\ resolvedData = [meta |-> Null, title |-> Null, name |-> [last |-> Null]]
  /\ data = [meta |-> DbNull, title |-> Null, name_last |-> Null]

\* C19: in none of the field-level phases (input resolvers of pass 1 and of
\* pass 2, field resolveInput hooks, field validate hooks, field
\* beforeOperation hooks) does one field's failure keep the other fields'
\* callables from being invoked, and the item's error names every field that
\* failed in the phase.
FieldPhaseFields(name) ==
  IF name = "inputResolver" THEN SeqToSet(NonRelationFields) ELSE Fields
FieldPhases == {"inputResolver", "field.resolveInput", "field.validate", "field.beforeOperation"}

C19_NoFieldPhaseFailFast ==
  \A i \in Items :
    /\ \A e \in AllEvents(i) :
         (e.ev \in FieldPhases /\ e.bad # {}) =>
           /\ e.inv = FieldPhaseFields(e.ev)
           /\ (e.path = <<>> /\ Finished(i)) => TaggedFields(outcome[i]) = e.bad
    /\ (Finished(i) /\ Pass2Raised(i) # {}) =>
         /\ Pass2Invoked(i) = SeqToSet(RelationFields)
         /\ TaggedFields(outcome[i]) = Pass2Raised(i)

\* a field beforeOperation hook threw and the hooks of the fields after it
\* were never invoked
C19_Witness ==
  \E i \in Items : \E e \in AllEvents(i) :
    /\ Finished(i)
    /\ e.ev = "field.beforeOperation" /\ e.path = <<>>
    /\ e.bad # {}
    /\ e.inv # Fields
    /\ ~HasEvent(i, <<>>, {"storeWrite"})

\* C20: the list validate hook of a mutation is invoked only after all its
\* field validate hooks were invoked and none rejected; when a field validate
\* hook rejected, the list validate hook, the beforeOperation hooks and the
\* store write of that mutation are not invoked, and a top-level item fails
\* with the validation error naming the rejected fields.
FieldValidateRejected(i, path) ==
  \E e \in SeqToSet(EventsOf(i, path, {"field.validate"})) : e.bad # {}

C20_ListValidateAfterFields ==
  \A i \in Items : \A path \in PathsOf(i) :
    /\ \A k \in DOMAIN log[i][path] :
         log[i][path][k].ev = "list.validate" =>
           \E j \in 1..(k - 1) :
             /\ log[i][path][j].ev = "field.validate"
             /\ log[i][path][j].inv = Fields /\ log[i][path][j].bad = {}
    /\ FieldValidateRejected(i, path) =>
         /\ ~HasEvent(i, path, {"list.validate", "list.beforeOperation",
                                "field.beforeOperation", "storeWrite"})
         /\ (path = <<>> /\ Finished(i)) =>
              outcome[i] = Err(i, "validationFailureError",
                               FieldTags(TopList, EventsOf(i, path, {"field.validate"})[1].bad,
                                         "hooks.validate"))

C20_Witness ==
  \E i, j \in Items :
    /\ Finished(i) /\ FieldValidateRejected(i, <<>>)
    /\ Cardinality(EventsOf(i, <<>>, {"field.validate"})[1].bad) = 2
    /\ HasEvent(j, <<>>, {"list.validate"}) /\ IsCommitted(j)

\* C21: when a store write of an item fails (its own or a nested create's),
\* no afterOperation hook and no deferred nested callback runs for that item;
\* when a list beforeOperation hook throws, no field beforeOperation hook and
\* no store write of that mutation follows; the item ends with that error.
WriteFailed(i, path) == HasEvent(i, path, {"writeFailed"})
ListHookFailed(i, path, name) ==
  \E e \in SeqToSet(EventsOf(i, path, {name})) : e.bad # {}

C21_PhaseFailureAborts ==
  \A i \in Items :
    /\ (\E path \in PathsOf(i) : WriteFailed(i, path)) =>
         \A e \in AllEvents(i) : e.ev \notin AfterEvents \cup {"deferredAfterOperation"}
    /\ (WriteFailed(i, <<>>) /\ Finished(i)) => outcome[i] = Err(i, "storeError", {})
    /\ \A path \in PathsOf(i) :
         ListHookFailed(i, path, "list.beforeOperation") =>
           /\ ~HasEvent(i, path, {"field.beforeOperation", "storeWrite"})
           /\ (path = <<>> /\ Finished(i)) =>
                outcome[i] = Err(i, "hookError", {<<TopList, "", "hooks.beforeOperation">>})

\* one item's own write failed after its nested create had written and
\* deferred a callback; another item's list beforeOperation hook threw
C21_Witness ==
  \E i, j \in Items :
    /\ Finished(i) /\ WriteFailed(i, <<>>) /\ NestedWritten(i) # {}
    /\ Finished(j) /\ ListHookFailed(j, <<>>, "list.beforeOperation")

\* C22: a relationship field whose input is undefined or null is resolved
\* by the no-op, whatever the inputs of the other relationship fields: from
\* the call of the resolvers to the end of the pass the field has raised
\* nothing (it is not in the relationship errors the pass will raise), no
\* nested create has been started for it, and so nothing was invoked and no
\* store call was made for it.
NoOpResolved(i, p, f, inp) ==
  /\ At(i, p, "awaitRelationships")
  /\ <<f, inp>> \in Fr(i, p).noops

C22_NullRelationshipIsNoOp ==
  \A i \in Items : \A p \in DOMAIN frames[i] :
    \A f \in SeqToSet(RelationFields) : \A inp \in {"undefined", "null"} :
      NoOpResolved(i, p, f, inp) =>
        /\ \A t \in Fr(i, p).errs : t[2] # f
        /\ (p \o <<f>>) \notin PathsOf(i)
        /\ (p \o <<f>>) \notin DOMAIN frames[i]
        /\ \E e \in SeqToSet(EventsOf(i, p, {"relationshipResolver"})) : e.inv = {f}
        /\ \A e \in SeqToSet(EventsOf(i, p, {"relationshipResolver"})) :
             e.inv = {f} => e.bad = {}

\* undefined for one relationship field of an item whose other field has
\* started a nested create; that nested create has in turn been given null
\* for one of its fields and a failing connect for the other, and its
\* relationship errors name only the latter
C22_Witness ==
  \E i \in Items : \E f, g \in SeqToSet(RelationFields) :
    /\ f # g
    /\ NoOpResolved(i, <<>>, f, "undefined")
    /\ NoOpResolved(i, <<g>>, f, "null")
    /\ {t[2] : t \in Fr(i, <<g>>).errs} = {g}

\* C23: the failures of pass 2 are raised as one relationshipError, a type
\* of its own: each failure of a to-many field keeps its own tag
\* (List.field.connect, List.field.create), a failure of a to-one field is
\* tagged List.field; a relationshipError is only raised after a pass 1 in
\* which no resolver failed, and after a failing pass 1 (a resolverError) no
\* relationship resolver is invoked.
ConnectFailed(i, f) ==
  \E e \in SeqToSet(EventsOf(i, <<>>, {"relationshipResolver"})) : f \in e.bad
NestedCreateFailed(i, f) == HasEvent(i, <<f>>, {"getOperationAccess"}) /\ ~HasWritten(i, <<f>>)
ExpectedRelationshipTags(i) ==
  {<<TopList, f, "">> : f \in {g \in SeqToSet(RelationFields) :
       DbFieldMode(g) = "one" /\ (ConnectFailed(i, g) \/ NestedCreateFailed(i, g))}}
  \cup {<<TopList, f, "connect">> : f \in {g \in SeqToSet(RelationFields) :
       DbFieldMode(g) = "many" /\ ConnectFailed(i, g)}}
  \cup {<<TopList, f, "create">> : f \in {g \in SeqToSet(RelationFields) :
       DbFieldMode(g) = "many" /\ NestedCreateFailed(i, g)}}

C23_RelationshipErrors ==
  \A i \in Items : Failed(i) =>
    /\ outcome[i].type = "relationshipError" =>
         /\ HasEvent(i, <<>>, {"inputResolver"}) /\ Pass1Raised(i) = {}
         /\ outcome[i].tags = ExpectedRelationshipTags(i)
         /\ outcome[i].tags # {}
    /\ outcome[i].type = "resolverError" =>
         /\ Pass1Raised(i) # {}
         /\ ~HasEvent(i, <<>>, {"relationshipResolver"})
    /\ (HasEvent(i, <<>>, {"inputResolver"}) /\ Pass1Raised(i) = {}
          /\ ExpectedRelationshipTags(i) # {}) => outcome[i].type = "relationshipError"

\* a to-many field whose connect and nested create both failed, next to a
\* to-one field that failed: three entries in one relationshipError
C23_Witness ==
  \E i \in Items : \E f, g \in SeqToSet(RelationFields) :
    /\ Failed(i) /\ outcome[i].type = "relationshipError"
    /\ outcome[i].tags = {<<TopList, f, "">>, <<TopList, g, "connect">>, <<TopList, g, "create">>}

\* C24: when field resolveInput hooks throw, every field's resolveInput hook
\* was invoked all the same, the item fails with one extensionError that has
\* an entry List.field.hooks.resolveInput for each field whose hook threw, and
\* the list resolveInput hook, the validate and beforeOperation hooks and the
\* store write of that mutation are not invoked.
AfterFieldResolveInput ==
  {"list.resolveInput", "field.validate", "list.validate", "list.beforeOperation",
   "field.beforeOperation", "storeWrite"}

C24_FieldResolveInputErrors ==
  \A i \in Items : \A e \in AllEvents(i) :
    (e.ev = "field.resolveInput" /\ e.bad # {}) =>
      /\ e.inv = Fields
      /\ ~HasEvent(i, e.path, AfterFieldResolveInput)
      /\ (e.path = <<>> /\ Finished(i)) =>
           outcome[i] = Err(i, "extensionError",
                            {<<TopList, f, "hooks.resolveInput">> : f \in e.bad})

C24_Witness ==
  \E i \in Items : \E e \in AllEvents(i) :
    /\ op = "update" /\ Finished(i)
    /\ e.ev = "field.resolveInput" /\ e.path = <<>>
    /\ Cardinality(e.bad) = 2
    /\ outcome[i].type = "extensionError"

\* C25: for update and delete, the item handed to the validate and
\* beforeOperation hooks equals the row as it is stored at the moment the
\* item's own write is issued, also when another item of the batch targets
\* the same row and their steps interleave.  (Between the issue and the
\* completion of a write the limiter lets no other write through, so the
\* store is that of the moment of issue.)
BeforeWriteHooks ==
  {"field.validate", "list.validate", "list.beforeOperation", "field.beforeOperation"}
WriteIssued(i) == At(i, <<>>, "storeWrite")

C25_HooksSeeRowAtWrite ==
  op \in {"update", "delete"} =>
    \A i \in Items : WriteIssued(i) =>
      \A e \in SeqToSet(EventsOf(i, <<>>, BeforeWriteHooks)) : e.item \in store[TopList]

\* an updateMany whose two items target the same row: the second write is
\* issued for a row the first has rewritten since the hooks' item was read
C25_Witness ==
  \E i, j \in Items :
    /\ i # j /\ op = "update" /\ mode = "many"
    /\ WriteIssued(i) /\ HasWritten(j, <<>>)
    /\ Fr(i, <<>>).item.v = InitialData
    /\ \E r \in store[TopList] : r.id = Fr(i, <<>>).item.id /\ r.v = [by |-> j, path |-> <<>>]
    /\ \A e \in SeqToSet(EventsOf(i, <<>>, BeforeWriteHooks)) : e.item = Fr(i, <<>>).item

\* C26: the nested-mutation state is scoped to one item of a batch: the
\* callbacks an item's state holds are those of nested creates made while
\* resolving that item, a deferred callback is run by the item that recorded
\* it and only after that item's own write, and an item whose own write did
\* not succeed runs none, whatever the other items of the batch do.
OwnNestedCreate(i, p, k) ==
  /\ p # <<>>
  /\ \E j \in 1..(k - 1) :
       log[i][p][j].ev = "written" /\ log[i][p][j].item = log[i][p][k].item

IsStrictPrefix(p, q) == Len(p) < Len(q) /\ SubSeq(q, 1, Len(p)) = p
InQueue(i, p) == {k \in DOMAIN limiter.queue : limiter.queue[k] = <<i, p>>}
OutsideLimiter == HookEvents \cup {"deferredAfterOperation"}
\* the createSingle of every nested create below p has ended, its store call
\* (when it got to one) answered
NestedWritesDone(i, p) ==
  \A q \in PathsOf(i) : IsStrictPrefix(p, q) =>
    /\ q \in DOMAIN frames[i] => Fr(i, q).kind = "after"
    /\ HasEvent(i, q, {"storeWrite"}) => HasEvent(i, q, {"written", "writeFailed"})

HolderIsInStoreCall(i, p) ==
  /\ limiter.holder = <<i, p>> =>
       /\ At(i, p, "storeWrite")
       /\ InQueue(i, p) = {}
       /\ LogOf(i, p)[Len(LogOf(i, p))].ev = "storeWrite"
  /\ Cardinality(InQueue(i, p)) <= 1
  /\ InQueue(i, p) # {} => At(i, p, "queued")
  /\ HasEvent(i, p, {"storeWrite"}) => NestedWritesDone(i, p)

\* path p of item i has made an invocation in this step
Invoked(i, p) ==
  /\ p \in DOMAIN log'[i]
  /\ log'[i][p] # LogOf(i, p)
  /\ log'[i][p][Len(log'[i][p])].ev \in OutsideLimiter
HeldBelow(holder, i, p) ==
  holder[1] = i /\ (holder[2] = p \/ IsStrictPrefix(p, holder[2]))
RunsOutsideLimiter(i, p) ==
  Invoked(i, p) => (~HeldBelow(limiter.holder, i, p) /\ ~HeldBelow(limiter'.holder, i, p))

C27_NoLimiterReentry ==
  /\ [](\A i \in Items : \A p \in Paths : HolderIsInStoreCall(i, p))
  /\ [][\A i \in Items : \A p \in Paths :
         /\ RunsOutsideLimiter(i, p)
         /\ LeavesQueue(<<i, p>>) => limiter'.holder = <<i, p>>
         /\ (limiter.holder = <<i, p>> /\ limiter'.holder # <<i, p>>) =>
              limiter'.holder = NoHolder]_vars
  /\ (limiter.queue # <<>>) ~> (limiter.queue = <<>>)
  /\ (limiter.holder # NoHolder) ~> (limiter.holder = NoHolder)
  /\ (\E i \in Items : Running(i)) ~> (\A i \in BatchItems : Finished(i))

\* the top-level write holds the limiter after nested creates at depth one
\* and two have held and released it
C27_Witness ==
  \E i \in Items :
    /\ limiter.holder = <<i, <<>>>> /\ At(i, <<>>, "storeWrite")
    /\ \E p, q \in NestedWritten(i) : Len(p) = 1 /\ Len(q) = 2 /\ IsStrictPrefix(p, q)

\* C28: the store's update and delete are called with where id = item.id,
\* the id of the row the access-controlled fetch returned, never with the
\* unique condition of the caller; the row written or deleted is the fetched
\* row, which passed the access filter.
C28_WriteTargetsFetchedRow ==
  op \in {"update", "delete"} =>
    \A i \in Items :
      /\ At(i, <<>>, "storeWrite") =>
           /\ Fr(i, <<>>).target = [key |-> "id", val |-> FetchedRow(i).id]
           /\ PassesFilter(FetchedRow(i))
      /\ \A e \in SeqToSet(EventsOf(i, <<>>, {"written"})) :
           /\ e.item.id = FetchedRow(i).id
           /\ op = "delete" => e.item \notin store[TopList]

\* the caller named the row by its slug and the update went to the row's id
C28_Witness ==
  \E i \in Items :
    /\ op = "update" /\ accessFilters.kind = "true"
    /\ IsCommitted(i)
    /\ TopLog(i)[3].where = [key |-> "slug", val |-> SlugFor(1)]
    /\ outcome[i].row.id = 1
    /\ EventsOf(i, <<>>, {"storeWrite"})[1].item = FetchedRow(i)

=============================================================================
